---- MODULE Spec2Model ----
(***************************************************************************)
(* Model of the RAG chatbot backend: the generation orchestrator           *)
(* (backend/ai_generator.py, AIGenerator.generate_response and its         *)
(* helpers) driving the tool registry (backend/search_tools.py,            *)
(* ToolManager).                                                           *)
(*                                                                         *)
(* Python values are modelled as follows.  None is the string "None"; an   *)
(* argument that is None or a list is a record [none, items]; a local      *)
(* that holds no object yet is a record of kind or stop_reason "None".     *)
(* A text built by an f-string is the tuple of its pieces, so that         *)
(* f"Tool '{name}' not found" is <<"Tool '", name, "' not found">>.        *)
(* A content block of a model response is a record whose fields are the    *)
(* attributes the Anthropic SDK gives that block type: a TextBlock has     *)
(* type and text, a ToolUseBlock has type, name and id.  Reading an        *)
(* attribute a block does not have raises AttributeError, indexing an      *)
(* empty list raises IndexError.  A call that may raise yields a record    *)
(* [kind |-> "return", value |-> v] or [kind |-> "raise", exc |-> e].      *)
(***************************************************************************)
EXTENDS Integers, Sequences, FiniteSets, TLC

\* ---------------------------------------------------------------- bounds

\* Largest number of content blocks in a tool_use response.
MaxBlocks == 2

\* Largest number of content blocks in a direct-answer response.
MaxAnswerBlocks == 1

\* ------------------------------------------------------------- constants

\* ai_generator.py line 102: MAX_ROUNDS = 2
MAX_ROUNDS == 2

None == "None"

\* Names of the tools of the repository (get_tool_definition()["name"]).
ToolNames == {"search_course_content", "get_course_outline"}

\* The stop reasons of a model response: "tool_use" is the tool-requested
\* signal, every other value is a direct answer.
StopReasons == {"end_turn", "tool_use"}

\* The failures of client.messages.create that _make_api_call tells apart.
ApiErrors == {"AuthenticationError", "RateLimitError", "APIError", "Exception"}

\* The arguments generate_response may be given.
Queries == {"What is MCP?"}

\* The values of the argument conversation_history.
Histories == {None, "User: Hello\nAssistant: Hi there!"}

\* The values of an argument that is None or a list.
PyNone == [none |-> TRUE, items |-> <<>>]

PyList(items) == [none |-> FALSE, items |-> items]

ToolCatalogs ==
    {PyNone, PyList(<<>>), PyList(<<"search_course_content", "get_course_outline">>)}

\* The locals `response` and the result of the run before they are set.
NoResponse == [stop_reason |-> None, content |-> <<>>]

NoOutcome == [kind |-> None]

\* What a registered tool's execute() may do: return a text or raise.
ToolOutcomes ==
    { [kind |-> "return", value |-> <<"Tool result">>],
      [kind |-> "raise", exc |-> [type |-> "Exception", msg |-> <<"Course not found">>]] }

VARIABLES
    tm_tools,       \* ToolManager.tools: the registered names (the keys), in insertion order
    tm_values,      \* ToolManager.tools: the registered tools (the values), key by key
    reg_order,      \* the registered tools, in the order in which they were registered
    first_order,    \* the names they registered, in the order each was first registered
    pc,             \* position of the run of generate_response
    tools,          \* generate_response's argument `tools`
    tool_manager,   \* generate_response's argument `tool_manager` (None or "tm")
    system_content, \* the local `system_content`
    messages,       \* the local `messages`
    round_count,    \* the local `round_count`
    response,       \* the local `response` (None before the first call)
    blk,            \* _execute_and_append_tools: index of the next content block
    tool_results,   \* _execute_and_append_tools: the local `tool_results`
    api_calls,      \* every client.messages.create call made, in order
    tool_calls,     \* every tool_manager.execute_tool call made, in order
    outcome,        \* how generate_response ended (None while it runs)
    last_sources,   \* CourseSearchTool.last_sources of every CourseSearchTool object
    catalog,        \* the course catalog of the retrieval store, in stored order
    call,           \* the last call made on the registry, with what it gave
    last_search,    \* what the most recent content search (or reset) left to cite
    shared,         \* two concurrent queries: do they use one registry object?
    q_pc,           \* two concurrent queries: the position of each
    q_produced,     \* two concurrent queries: the citations each one's search produced
    q_collected,    \* two concurrent queries: the citations each one collected
    rag_query,      \* one query through its tool rounds: the rounds, then what it collected
    sessions,       \* SessionManager: the session ids created so far
    http            \* every POST /api/query handled, in order

\* The variables of a run of generate_response.
gen_vars == <<pc, tools, tool_manager, system_content, messages, round_count, response,
              blk, tool_results, api_calls, tool_calls, outcome>>

\* The registry and the state of its tools and their store.
registry_vars ==
    <<tm_tools, tm_values, reg_order, first_order, last_sources, catalog, call, last_search>>

\* The two concurrent queries.
query_vars == <<shared, q_pc, q_produced, q_collected, rag_query>>

\* The HTTP endpoint.
http_vars == <<sessions, http>>

vars == <<gen_vars, registry_vars, query_vars, http_vars>>

Range(s) == { s[i] : i \in 1..Len(s) }

\* ------------------------------------------------------- model responses

TextBlock(n, i) == [type |-> "text", text |-> <<"text", n, i>>]

ToolUseBlock(name, n, i) == [type |-> "tool_use", name |-> name, id |-> <<"toolu", n, i>>]

\* The blocks the n-th response may hold at position i.
BlocksAt(n, i) == {TextBlock(n, i)} \cup { ToolUseBlock(name, n, i) : name \in ToolNames }

\* All content lists of exactly len blocks of the n-th response.
RECURSIVE ContentsOfLen(_, _)
ContentsOfLen(n, len) ==
    IF len = 0 THEN {<<>>}
    ELSE { Append(c, b) : c \in ContentsOfLen(n, len - 1), b \in BlocksAt(n, len) }

\* All content lists of at most max blocks of the n-th response.
Contents(n, max) == UNION { ContentsOfLen(n, len) : len \in 0..max }

\* The responses client.messages.create may return to the n-th call.
Responses(n) ==
    { [stop_reason |-> "tool_use", content |-> c] : c \in Contents(n, MaxBlocks) }
    \cup
    { [stop_reason |-> s, content |-> c] :
        s \in StopReasons \ {"tool_use"}, c \in Contents(n, MaxAnswerBlocks) }

\* ------------------------------------------------------ Python semantics

Return(v) == [kind |-> "return", value |-> v]

Raise(type, msg) == [kind |-> "raise", exc |-> [type |-> type, msg |-> msg]]

\* bool(x) of an argument that is None or a list.
Truthy(x) == ~x.none /\ x.items # <<>>

\* The expression content[0].text.
FirstText(content) ==
    IF Len(content) = 0 THEN Raise("IndexError", <<"list index out of range">>)
    ELSE IF content[1].type # "text"
         THEN Raise("AttributeError", <<"object has no attribute 'text'">>)
         ELSE Return(content[1].text)

\* The expression content[0].id.
FirstId(content) ==
    IF Len(content) = 0 THEN Raise("IndexError", <<"list index out of range">>)
    ELSE IF content[1].type # "tool_use"
         THEN Raise("AttributeError", <<"object has no attribute 'id'">>)
         ELSE Return(content[1].id)

\* ------------------------------------------------------------ ToolManager

\* ToolManager.register_tool: self.tools[tool_name] = tool.  A dict keeps a
\* key that is assigned again at the place of its first insertion.
register_tool(registry, name) ==
    IF name \in Range(registry) THEN registry ELSE Append(registry, name)

\* execute_tool without the membership test: an unknown name raises KeyError.
execute_tool_NoMembershipTest(registry, tool_name) ==
    IF tool_name \notin Range(registry)
    THEN { [res |-> Raise("KeyError", <<tool_name>>), ran |-> None] }
    ELSE { [res |-> o, ran |-> tool_name] : o \in ToolOutcomes }

\* ToolManager.execute_tool: the outcomes of execute_tool(tool_name, **kwargs),
\* each with the registered tool whose execute() ran (None when none did).
execute_tool(registry, tool_name) ==
    IF tool_name \notin Range(registry)
    THEN { [res |-> Return(<<"Tool '", tool_name, "' not found">>), ran |-> None] }
    ELSE { [res |-> o, ran |-> tool_name] : o \in ToolOutcomes }

\* ------------------------------------------------------- the tool objects

\* A CourseSearchTool object and a CourseOutlineTool object; obj tells two
\* objects of one class apart.
CourseSearchTool(obj) == [class |-> "CourseSearchTool", obj |-> obj]

CourseOutlineTool(obj) == [class |-> "CourseOutlineTool", obj |-> obj]

\* Another implementation of Tool whose definition has no usable name:
\* object 1 gives a definition without a "name", object 2 the name "".
NamelessTool(obj) == [class |-> "Tool", obj |-> obj]

\* Another implementation of Tool that keeps a last_sources list, as
\* get_last_sources and reset_sources allow for (hasattr, lines 229 and 236).
TrackingTool(obj) == [class |-> "TrackingTool", obj |-> obj]

\* The CourseSearchTool objects of the model.
SearchTools == {CourseSearchTool(1), CourseSearchTool(2)}

\* The tool objects that have a last_sources attribute.
SlotTools == SearchTools \cup {TrackingTool(1)}

\* The tool objects register_tool may be given.
Tools == SearchTools \cup {CourseOutlineTool(1), NamelessTool(1), NamelessTool(2)}

\* Tool.get_tool_definition: the name, the parameters and the required
\* parameters of the schema.
get_tool_definition(tool) ==
    IF tool.class = "CourseSearchTool"
    THEN [name |-> "search_course_content",
          properties |-> {"query", "course_name", "lesson_number"},
          required |-> {"query"}]
    ELSE IF tool.class = "CourseOutlineTool"
    THEN [name |-> "get_course_outline",
          properties |-> {"course_name"},
          required |-> {"course_name"}]
    ELSE IF tool.class = "TrackingTool"
    THEN [name |-> "track_sources",
          properties |-> {"query"},
          required |-> {"query"}]
    ELSE IF tool.obj = 1
    THEN [properties |-> {}, required |-> {}]
    ELSE [name |-> "", properties |-> {}, required |-> {}]

\* tool_def.get("name"), line 208.
DefinitionName(tool_def) == IF "name" \in DOMAIN tool_def THEN tool_def.name ELSE None

\* hasattr(tool, 'last_sources').
HasLastSources(tool) == tool.class \in {"CourseSearchTool", "TrackingTool"}

\* The tool object the application builds for a name: RAGSystem and
\* test_tools_registered build one object of each class.
ToolOfName(name) ==
    IF name = "search_course_content" THEN CourseSearchTool(1) ELSE CourseOutlineTool(1)

\* ------------------------------------------------------ the retrieval store

\* config.MAX_RESULTS, the largest number of rows of a search.
MAX_RESULTS == 5

\* The canonical course titles.
Titles == <<"MCP: Advanced Topics", "Building Towards Computer Use">>

\* The catalogs the store may hold: none, one or two courses.
Catalogs == { SubSeq(Titles, 1, n) : n \in 0..Len(Titles) }

\* The raw course names a caller may type: a partial title and gibberish.
RawNames == {"MCP", "xyzzy"}

\* The lesson numbers a caller may ask for.
LessonNumbers == {0, 1}

\* The catalog entry of a course: its link and its lessons, in stored order.
CourseEntry(title) ==
    IF title = Titles[1]
    THEN [title |-> title, instructor |-> "Dr. Test Instructor",
          course_link |-> "https://example.com/course",
          lessons |-> << [lesson_number |-> 0, lesson_title |-> "Introduction",
                          lesson_link |-> "https://example.com/lesson0"],
                         [lesson_number |-> 1, lesson_title |-> "Servers",
                          lesson_link |-> None] >>]
    ELSE [title |-> title, instructor |-> None, course_link |-> None, lessons |-> <<>>]

\* The chunks of the content collection, in the order a nearest-neighbour
\* query ranks them; a chunk's metadata has no lesson_number when the chunk
\* belongs to no lesson.
Chunks ==
    << [doc |-> "chunk 0", meta |-> [course_title |-> Titles[1], lesson_number |-> 0]],
       [doc |-> "chunk 1", meta |-> [course_title |-> Titles[1], lesson_number |-> 1]],
       [doc |-> "chunk 2", meta |-> [course_title |-> Titles[2]]],
       [doc |-> "chunk 3", meta |-> [course_title |-> Titles[1]]] >>

\* The distance between the embeddings of a raw name and of a title.
Distance(raw, title) ==
    IF raw = "MCP" THEN (IF title = Titles[1] THEN 1 ELSE 6)
    ELSE (IF title = Titles[1] THEN 9 ELSE 8)

\* The index of the first entry of the catalog closest to the raw name.
Closest(cat, raw) ==
    CHOOSE i \in 1..Len(cat) :
        \A j \in 1..Len(cat) :
            \/ Distance(raw, cat[i]) < Distance(raw, cat[j])
            \/ (Distance(raw, cat[i]) = Distance(raw, cat[j]) /\ i <= j)

\* VectorStore._resolve_course_name: the closest title of the catalog, None
\* when the catalog is empty.
resolve_course_name(cat, raw) ==
    IF cat = <<>> THEN None ELSE cat[Closest(cat, raw)]

\* A SearchResults object; error = <<>> is an unset error.
SearchResults(documents, metadata, error) ==
    [documents |-> documents, metadata |-> metadata, error |-> error]

\* SearchResults.is_empty.
is_empty(results) == Len(results.documents) = 0 /\ results.error = <<>>

\* A keyword-argument map: the keys supplied, and the value of each key.
Given(kwargs, key) == key \in kwargs.keys

\* The chunks of the courses of the catalog that pass the equality filter.
Matching(cat, title, kwargs) ==
    SelectSeq(Chunks, LAMBDA c :
        /\ c.meta.course_title \in Range(cat)
        /\ (title # None => c.meta.course_title = title)
        /\ (Given(kwargs, "lesson_number") =>
              /\ "lesson_number" \in DOMAIN c.meta
              /\ c.meta.lesson_number = kwargs.lesson_number))

\* VectorStore.search: the results a search may give.  A course name that
\* does not resolve short-circuits to an error; otherwise the query runs and
\* either gives its rows or fails, the failure being captured as error.
search(cat, kwargs) ==
    LET title == IF Given(kwargs, "course_name")
                 THEN resolve_course_name(cat, kwargs.course_name) ELSE None
        rows == Matching(cat, title, kwargs)
        top == SubSeq(rows, 1, IF Len(rows) < MAX_RESULTS THEN Len(rows) ELSE MAX_RESULTS)
    IN  IF Given(kwargs, "course_name") /\ title = None
        THEN { SearchResults(<<>>, <<>>, <<"No course found matching '", kwargs.course_name, "'">>) }
        ELSE { SearchResults([i \in 1..Len(top) |-> top[i].doc],
                             [i \in 1..Len(top) |-> top[i].meta], <<>>),
               SearchResults(<<>>, <<>>, <<"Search error: ", "connection lost">>) }

\* VectorStore.get_course_link: the link of the catalog entry, None without.
get_course_link(cat, title) ==
    IF title \in Range(cat) THEN CourseEntry(title).course_link ELSE None

\* VectorStore.get_lesson_link: the link of the lesson of the catalog entry,
\* None when the course, the lesson or its link is absent.
get_lesson_link(cat, title, lesson_number) ==
    IF title \notin Range(cat) THEN None
    ELSE LET ls == SelectSeq(CourseEntry(title).lessons,
                             LAMBDA l : l.lesson_number = lesson_number)
         IN  IF ls = <<>> THEN None ELSE ls[1].lesson_link

\* ------------------------------------------------------ the tools' execute

\* The keyword-argument maps the model may supply: each set of keys fits one
\* tool's schema and, for the other tool, lacks a required key or holds a
\* key that tool's execute does not take.
KeySets ==
    { {"query"}, {"course_name"}, {"query", "course_name"}, {"query", "lesson_number"},
      {"query", "course_name", "lesson_number"} }

\* A key that is not supplied has no value: the map holds a fixed filler.
ArgMaps ==
    UNION { { [keys |-> ks, query |-> "What is MCP?", course_name |-> c, lesson_number |-> n] :
                c \in { r \in RawNames : "course_name" \in ks \/ r = "MCP" },
                n \in { l \in LessonNumbers : "lesson_number" \in ks \/ l = 0 } } :
            ks \in KeySets }

\* The Python call execute(**kwargs) binds: no key outside the parameters,
\* every parameter without a default supplied.
Binds(kwargs, tool) ==
    /\ kwargs.keys \subseteq get_tool_definition(tool).properties
    /\ get_tool_definition(tool).required \subseteq kwargs.keys

\* bool(course_name) and bool(lesson_number) of execute's parameters, whose
\* default is None.
TruthyName(kwargs) == Given(kwargs, "course_name") /\ kwargs.course_name # ""

TruthyLesson(kwargs) == Given(kwargs, "lesson_number") /\ kwargs.lesson_number # 0

\* meta.get('lesson_number') is not None.
HasLesson(meta) == "lesson_number" \in DOMAIN meta

\* _format_results, lines 98-101 and 123: the block of one row.
FormatBlock(doc, meta) ==
    IF HasLesson(meta)
    THEN <<"[", meta.course_title, " - Lesson ", ToString(meta.lesson_number), "]", "\n", doc>>
    ELSE <<"[", meta.course_title, "]", "\n", doc>>

\* _format_results giving every citation the link of its course.
SourceOf_CourseLinkOnly(cat, meta) ==
    IF HasLesson(meta)
    THEN [text |-> <<meta.course_title, " - Lesson ", ToString(meta.lesson_number)>>,
          link |-> get_course_link(cat, meta.course_title)]
    ELSE [text |-> <<meta.course_title>>,
          link |-> get_course_link(cat, meta.course_title)]

\* _format_results, lines 104-121: the citation of one row.
SourceOf(cat, meta) ==
    IF HasLesson(meta)
    THEN [text |-> <<meta.course_title, " - Lesson ", ToString(meta.lesson_number)>>,
          link |-> get_lesson_link(cat, meta.course_title, meta.lesson_number)]
    ELSE [text |-> <<meta.course_title>>,
          link |-> get_course_link(cat, meta.course_title)]

\* _format_results, line 128: the blocks in row order, joined by "\n\n".
RECURSIVE Formatted(_)
Formatted(results) ==
    IF Len(results.documents) = 0 THEN <<>>
    ELSE LET n == Len(results.documents)
             head == SearchResults(SubSeq(results.documents, 1, n - 1),
                                   SubSeq(results.metadata, 1, n - 1), results.error)
         IN  Formatted(head) \o (IF n > 1 THEN <<"\n\n">> ELSE <<>>)
                 \o FormatBlock(results.documents[n], results.metadata[n])

\* _format_results: the citations, in row order.
RECURSIVE Sources(_, _)
Sources(cat, results) ==
    IF Len(results.documents) = 0 THEN <<>>
    ELSE LET n == Len(results.documents)
             head == SearchResults(SubSeq(results.documents, 1, n - 1),
                                   SubSeq(results.metadata, 1, n - 1), results.error)
         IN  Append(Sources(cat, head), SourceOf(cat, results.metadata[n]))

\* execute, lines 78-83: the text for a search without rows.
NoContentText(kwargs) ==
    <<"No relevant content found">>
    \o (IF TruthyName(kwargs) THEN <<" in course '", kwargs.course_name, "'">> ELSE <<>>)
    \o (IF TruthyLesson(kwargs) THEN <<" in lesson ", ToString(kwargs.lesson_number)>> ELSE <<>>)
    \o <<".">>

\* What an execute() did: what it returned or raised, whether it assigned
\* self.last_sources and the list it assigned.
Did(res, stores, sources) == [res |-> res, stores |-> stores, sources |-> sources]

\* CourseSearchTool.execute raising the store's error instead of returning it.
SearchExecute_RaisesError(cat, kwargs, results) ==
    IF results.error # <<>> THEN Did(Raise("Exception", results.error), FALSE, <<>>)
    ELSE IF is_empty(results) THEN Did(Return(NoContentText(kwargs)), FALSE, <<>>)
    ELSE Did(Return(Formatted(results)), TRUE, Sources(cat, results))

\* CourseSearchTool.execute formatting a result without rows as well:
\* _format_results assigns the empty list to last_sources.
SearchExecute_FormatsEmpty(cat, kwargs, results) ==
    IF results.error # <<>> THEN Did(Return(results.error), FALSE, <<>>)
    ELSE IF is_empty(results) THEN Did(Return(NoContentText(kwargs)), TRUE, <<>>)
    ELSE Did(Return(Formatted(results)), TRUE, Sources(cat, results))

\* CourseSearchTool.execute, lines 66-86, on the results the store gave.
SearchExecute(cat, kwargs, results) ==
    IF results.error # <<>> THEN Did(Return(results.error), FALSE, <<>>)
    ELSE IF is_empty(results) THEN Did(Return(NoContentText(kwargs)), FALSE, <<>>)
    ELSE Did(Return(Formatted(results)), TRUE, Sources(cat, results))

\* The results of course_catalog.get(ids=[title]) and of json.loads.
Lookups == {"found", "no metadatas", "get raises", "lessons_json malformed"}

\* CourseOutlineTool.execute, lines 182-191: one line per lesson.
RECURSIVE LessonLines(_)
LessonLines(lessons) ==
    IF lessons = <<>> THEN <<>>
    ELSE LET n == Len(lessons) IN
         LessonLines(SubSeq(lessons, 1, n - 1))
             \o <<ToString(lessons[n].lesson_number), ". ", lessons[n].lesson_title,
                  "\n   Link: ", lessons[n].lesson_link, "\n">>

\* CourseOutlineTool.execute taking the resolved title for a match only when
\* it is the name that was asked for.
OutlineExecute_ExactMatchOnly(cat, kwargs, lookup) ==
    LET course_title == resolve_course_name(cat, kwargs.course_name)
        entry == CourseEntry(course_title)
    IN  IF course_title # kwargs.course_name
        THEN Return(<<"No course found matching '", kwargs.course_name,
                      "'. Please try a different course name or check available courses.">>)
        ELSE IF lookup = "found"
        THEN Return(<<"Course: ", entry.title, "\n", "Instructor: ", entry.instructor, "\n",
                      "Course Link: ", entry.course_link, "\n\n", "Lessons:\n">>
                    \o LessonLines(entry.lessons))
        ELSE Return(<<"Error retrieving course outline: ", "connection lost">>)

\* CourseOutlineTool.execute with json.loads outside the try block: a
\* malformed lesson list escapes as an exception.
OutlineExecute_LoadsOutsideTry(cat, kwargs, lookup) ==
    LET course_title == resolve_course_name(cat, kwargs.course_name)
        entry == CourseEntry(course_title)
    IN  IF course_title = None \/ course_title = ""
        THEN Return(<<"No course found matching '", kwargs.course_name,
                      "'. Please try a different course name or check available courses.">>)
        ELSE IF lookup = "get raises"
        THEN Return(<<"Error retrieving course outline: ", "connection lost">>)
        ELSE IF lookup = "no metadatas"
        THEN Return(<<"No course found matching '", kwargs.course_name, "'.">>)
        ELSE IF lookup = "lessons_json malformed"
        THEN Raise("JSONDecodeError", <<"Expecting value">>)
        ELSE Return(<<"Course: ", entry.title, "\n", "Instructor: ", entry.instructor, "\n",
                      "Course Link: ", entry.course_link, "\n\n", "Lessons:\n">>
                    \o LessonLines(entry.lessons))

\* CourseOutlineTool.execute, lines 158-196, on what the catalog lookup gave.
OutlineExecute(cat, kwargs, lookup) ==
    LET course_title == resolve_course_name(cat, kwargs.course_name)
        entry == CourseEntry(course_title)
    IN  IF course_title = None \/ course_title = ""
        THEN Return(<<"No course found matching '", kwargs.course_name,
                      "'. Please try a different course name or check available courses.">>)
        ELSE IF lookup = "get raises"
        THEN Return(<<"Error retrieving course outline: ", "connection lost">>)
        ELSE IF lookup = "no metadatas"
        THEN Return(<<"No course found matching '", kwargs.course_name, "'.">>)
        ELSE IF lookup = "lessons_json malformed"
        THEN Return(<<"Error retrieving course outline: ", "Expecting value">>)
        ELSE Return(<<"Course: ", entry.title, "\n", "Instructor: ", entry.instructor, "\n",
                      "Course Link: ", entry.course_link, "\n\n", "Lessons:\n">>
                    \o LessonLines(entry.lessons))

\* The citations the tracking tool's execute assigns to its last_sources.
TrackedSources == <<[text |-> <<"Tracked">>, link |-> None]>>

\* tool.execute(**kwargs) of a registered tool: everything it may do.
Execute(tool, cat, kwargs) ==
    IF ~Binds(kwargs, tool)
    THEN { Did(Raise("TypeError", <<"execute() got unexpected or missing arguments">>),
               FALSE, <<>>) }
    ELSE IF tool.class = "CourseSearchTool"
    THEN { SearchExecute(cat, kwargs, results) : results \in search(cat, kwargs) }
    ELSE IF tool.class = "TrackingTool"
    THEN { Did(Return(<<"Tracked">>), TRUE, TrackedSources) }
    ELSE { Did(OutlineExecute(cat, kwargs, lookup), FALSE, <<>>) : lookup \in Lookups }

\* --------------------------------------------- ToolManager, tool by tool

\* No tool object.
NoTool == [class |-> None, obj |-> 0]

\* The position of a registered name among the keys.
IndexOf(keys, name) == CHOOSE i \in 1..Len(keys) : keys[i] = name

\* register_tool keeping the tool already registered under a name.
register_value_FirstWins(keys, values, tool) ==
    IF DefinitionName(get_tool_definition(tool)) \in Range(keys)
    THEN values
    ELSE Append(values, tool)

\* register_tool deleting a registered name before it stores the tool, so
\* that the tool moves to the end of the dict.
register_value_MoveToEnd(keys, values, tool) ==
    Append(SelectSeq(values, LAMBDA t :
               DefinitionName(get_tool_definition(t)) # DefinitionName(get_tool_definition(tool))),
           tool)

\* ToolManager.register_tool, line 211: the values of self.tools after
\* self.tools[tool_name] = tool.
register_value(keys, values, tool) ==
    IF DefinitionName(get_tool_definition(tool)) \in Range(keys)
    THEN [values EXCEPT ![IndexOf(keys, DefinitionName(get_tool_definition(tool)))] = tool]
    ELSE Append(values, tool)

\* register_tool testing the name against None only: the name "" is stored.
register_check_MissingOnly(tool) ==
    IF DefinitionName(get_tool_definition(tool)) = None
    THEN Raise("ValueError", <<"Tool must have a 'name' in its definition">>)
    ELSE Return(None)

\* ToolManager.register_tool, lines 207-210: what the call does before it
\* stores the tool.
register_check(tool) ==
    IF DefinitionName(get_tool_definition(tool)) \in {None, ""}
    THEN Raise("ValueError", <<"Tool must have a 'name' in its definition">>)
    ELSE Return(None)

\* ToolManager.get_tool_definitions, line 216.
get_tool_definitions(values) == [i \in 1..Len(values) |-> get_tool_definition(values[i])]

\* The tool self.tools[tool_name].
ToolAt(keys, values, tool_name) == values[IndexOf(keys, tool_name)]

\* ToolManager.execute_tool, lines 220-223, with the tools' own execute:
\* everything the call may do, and the tool object that ran.
execute_tool_call(keys, values, cat, tool_name, kwargs) ==
    IF tool_name \notin Range(keys)
    THEN { [did |-> Did(Return(<<"Tool '", tool_name, "' not found">>), FALSE, <<>>),
            ran |-> NoTool] }
    ELSE { [did |-> d, ran |-> ToolAt(keys, values, tool_name)] :
             d \in Execute(ToolAt(keys, values, tool_name), cat, kwargs) }

\* CourseSearchTool._format_results, line 126, with last_sources an attribute
\* of the class: the assignment is seen by every object.
StoreSources_ClassAttribute(slots, tool, sources) ==
    [t \in DOMAIN slots |-> sources]

\* _format_results adding its citations to those the tool already holds.
StoreSources_Accumulates(slots, tool, sources) == [slots EXCEPT ![tool] = @ \o sources]

\* CourseSearchTool._format_results, line 126: self.last_sources = sources.
StoreSources(slots, tool, sources) == [slots EXCEPT ![tool] = sources]

\* get_last_sources going on to the last tool that holds citations.
get_last_sources_LastHolder(values, slots) ==
    LET holders == SelectSeq(values, LAMBDA t : HasLastSources(t) /\ slots[t] # <<>>)
    IN  IF holders = <<>> THEN <<>> ELSE slots[holders[Len(holders)]]

\* reset_sources assigning [] to a local name: no tool's list is cleared.
reset_sources_LocalOnly(values, slots) == slots

\* The tools of the registry that hold citations, in the order of the dict.
Holders(values, slots) ==
    SelectSeq(values, LAMBDA t : HasLastSources(t) /\ slots[t] # <<>>)

\* ToolManager.get_last_sources, lines 228-231.
get_last_sources(values, slots) ==
    IF Holders(values, slots) = <<>> THEN <<>> ELSE slots[Holders(values, slots)[1]]

\* ToolManager.reset_sources, lines 235-237.
reset_sources(values, slots) ==
    [t \in DOMAIN slots |-> IF t \in Range(values) /\ HasLastSources(t) THEN <<>> ELSE slots[t]]

\* ------------------------------------------------------------ AIGenerator

\* generate_response, lines 92-96: the system text.
SystemContent(conversation_history) ==
    IF conversation_history # None /\ conversation_history # ""
    THEN <<"SYSTEM_PROMPT", "\n\nPrevious conversation:\n", conversation_history>>
    ELSE <<"SYSTEM_PROMPT">>

\* _make_api_call sending the last message of the history only.
ApiParams_OnlyLastMessage(msgs, sys, tls) ==
    IF Truthy(tls)
    THEN [messages |-> <<msgs[Len(msgs)]>>, system |-> sys, tools |-> tls.items,
          tool_choice |-> "auto"]
    ELSE [messages |-> <<msgs[Len(msgs)]>>, system |-> sys]

\* _make_api_call sending the catalog with the first call of a run only.
ApiParams_ToolsOnFirstCallOnly(msgs, sys, tls) ==
    IF Truthy(tls) /\ Len(msgs) = 1
    THEN [messages |-> msgs, system |-> sys, tools |-> tls.items, tool_choice |-> "auto"]
    ELSE [messages |-> msgs, system |-> sys]

\* _make_api_call testing `tools is not None` at line 178: an empty catalog
\* is sent.
ApiParams_SendsEmptyCatalog(msgs, sys, tls) ==
    IF ~tls.none
    THEN [messages |-> msgs, system |-> sys, tools |-> tls.items, tool_choice |-> "auto"]
    ELSE [messages |-> msgs, system |-> sys]

\* _make_api_call, lines 175-181: the parameters of client.messages.create.
ApiParams(msgs, sys, tls) ==
    IF Truthy(tls)
    THEN [messages |-> msgs, system |-> sys, tools |-> tls.items, tool_choice |-> "auto"]
    ELSE [messages |-> msgs, system |-> sys]

\* _make_api_call without its last except clause: a failure that is none of
\* the SDK's error types escapes as it is.
ApiFailure_NoCatchAll(err) ==
    IF err = "AuthenticationError"
    THEN Raise("ValueError", <<"Anthropic API key is invalid or expired: ", err>>)
    ELSE IF err = "RateLimitError"
    THEN Raise("ValueError", <<"Anthropic API rate limit exceeded. Please try again later: ", err>>)
    ELSE IF err = "APIError"
    THEN Raise("ValueError", <<"Anthropic API error: ", err>>)
    ELSE Raise(err, <<err>>)

\* _make_api_call, lines 187-198: the exception raised for a failure of
\* client.messages.create, by the first except clause that matches.
ApiFailure(err) ==
    IF err = "AuthenticationError"
    THEN Raise("ValueError", <<"Anthropic API key is invalid or expired: ", err>>)
    ELSE IF err = "RateLimitError"
    THEN Raise("ValueError", <<"Anthropic API rate limit exceeded. Please try again later: ", err>>)
    ELSE IF err = "APIError"
    THEN Raise("ValueError", <<"Anthropic API error: ", err>>)
    ELSE Raise("ValueError", <<"Unexpected error calling Anthropic API: ", err>>)

\* The loop condition off by one: a third round is allowed.
LoopCondition_OffByOne(rc) == rc <= MAX_ROUNDS

\* generate_response, line 106: the loop condition.
LoopCondition(rc) == rc < MAX_ROUNDS

\* generate_response testing the response for "end_turn" at line 148: a
\* loop that ends on a tool_use response goes to the fallback return.
AfterRound_SynthesisOnEndTurn(rc, resp) ==
    IF LoopCondition(rc) THEN "loop"
    ELSE IF resp.stop_reason = "end_turn" THEN "synth"
    ELSE "fallback"

\* generate_response, lines 106 and 148-158: where the run goes once a round
\* has been counted.
AfterRound(rc, resp) ==
    IF LoopCondition(rc) THEN "loop"
    ELSE IF resp.stop_reason = "tool_use" THEN "synth"
    ELSE "fallback"

\* generate_response, line 158: the fallback return.
FallbackReturn(resp) ==
    IF Len(resp.content) # 0 THEN FirstText(resp.content)
    ELSE Return(<<"Error: No response generated">>)

\* generate_response, lines 138-142: the tool result that reports a failure.
ErrorResult(resp, exc) ==
    [type |-> "tool_result",
     tool_use_id |-> FirstId(resp.content).value,
     content |-> <<"Tool execution failed: ", exc.msg>>]

\* generate_response, lines 150-155: the forced synthesis, given what
\* _make_api_call did (a response, or the exception it raised).
Synthesis(called) ==
    LET got == IF called.kind = "raise" THEN called ELSE FirstText(called.value.content)
    IN  IF got.kind = "raise"
        THEN Raise("ValueError", <<"Error synthesizing final response: ", got.exc.msg>>)
        ELSE got

\* No run of generate_response has started.
GenInit ==
    /\ pc = "idle"
    /\ tools = PyNone
    /\ tool_manager = None
    /\ system_content = <<>>
    /\ messages = <<>>
    /\ round_count = 0
    /\ response = NoResponse
    /\ blk = 0
    /\ tool_results = <<>>
    /\ api_calls = <<>>
    /\ tool_calls = <<>>
    /\ outcome = NoOutcome

\* ToolManager() and the tool objects just built: nothing registered, no
\* citations.
RegistryInit ==
    /\ tm_tools = <<>>
    /\ tm_values = <<>>
    /\ reg_order = <<>>
    /\ first_order = <<>>
    /\ last_sources = [t \in SlotTools |-> <<>>]
    /\ call = [op |-> None]
    /\ last_search = <<>>

\* No query is running.
QueryInit ==
    /\ shared = FALSE
    /\ q_pc = [q \in {1, 2} |-> "done"]
    /\ q_produced = [q \in {1, 2} |-> <<>>]
    /\ q_collected = [q \in {1, 2} |-> <<>>]
    /\ rag_query = [pc |-> "rounds", rounds |-> <<>>, sources |-> <<>>]

\* No request was handled and no session created.
HttpInit ==
    /\ sessions = <<>>
    /\ http = <<>>

Init == GenInit /\ RegistryInit /\ catalog = Titles /\ QueryInit /\ HttpInit

\* ToolManager.register_tool(tool), before the query is processed.
RegisterTool ==
    /\ pc = "idle"
    /\ \E name \in ToolNames :
         /\ tm_tools' = register_tool(tm_tools, name)
         /\ tm_values' = register_value(tm_tools, tm_values, ToolOfName(name))
    /\ UNCHANGED <<reg_order, first_order, last_sources, catalog, call, last_search>>
    /\ UNCHANGED <<gen_vars, query_vars, http_vars>>

\* generate_response is called: lines 91-103.
GenerateResponse ==
    /\ pc = "idle"
    /\ \E query \in Queries, conversation_history \in Histories,
          tls \in ToolCatalogs, tm \in {None, "tm"} :
        /\ system_content' = SystemContent(conversation_history)
        /\ tools' = tls
        /\ tool_manager' = tm
        /\ messages' = <<[role |-> "user", content |-> query]>>
    /\ round_count' = 0
    /\ pc' = "loop"
    /\ UNCHANGED <<response, blk, tool_results, api_calls, tool_calls, outcome>>
    /\ UNCHANGED <<registry_vars, query_vars, http_vars>>

\* The entry of the log of model calls: the parameters sent, what came back,
\* and where the run stood.
ApiCallEntry(params, result, site) ==
    [params |-> params, result |-> result, site |-> site,
     round_count |-> round_count, n_tool_calls |-> Len(tool_calls)]

\* The run ends: with what, and nothing else changes.
Finish(o) ==
    /\ outcome' = o
    /\ pc' = IF o.kind = "return" THEN "returned" ELSE "raised"

\* A round counted twice: round_count += 2 where the code has += 1.
EndRound_CountsTwice(rc) ==
    /\ round_count' = rc + 1
    /\ IF AfterRound(rc + 1, response) = "fallback"
       THEN Finish(FallbackReturn(response))
       ELSE pc' = AfterRound(rc + 1, response) /\ outcome' = outcome

\* A round has been counted (round_count is now rc): back to the loop test.
EndRound(rc) ==
    /\ round_count' = rc
    /\ IF AfterRound(rc, response) = "fallback"
       THEN Finish(FallbackReturn(response))
       ELSE pc' = AfterRound(rc, response) /\ outcome' = outcome

\* One iteration of the loop up to the tool execution: lines 106-129, and
\* _execute_and_append_tools up to its for loop, lines 215-219.
ApiCall ==
    /\ pc = "loop"
    /\ LoopCondition(round_count)
    /\ LET params == ApiParams(messages, system_content, tools) IN
       \/ \E err \in ApiErrors :
            /\ api_calls' = Append(api_calls, ApiCallEntry(params, ApiFailure(err), "loop"))
            /\ Finish(ApiFailure(err))
            /\ UNCHANGED <<messages, response, blk, tool_results>>
       \/ \E r \in Responses(Len(api_calls) + 1) :
            /\ api_calls' = Append(api_calls, ApiCallEntry(params, Return(r), "loop"))
            /\ response' = r
            /\ IF r.stop_reason # "tool_use" \/ tool_manager = None
               THEN /\ Finish(FirstText(r.content))
                    /\ UNCHANGED <<messages, blk, tool_results>>
               ELSE /\ messages' = Append(messages, [role |-> "assistant", content |-> r.content])
                    /\ tool_results' = <<>>
                    /\ blk' = 1
                    /\ pc' = "exec"
                    /\ UNCHANGED outcome
    /\ UNCHANGED <<tools, tool_manager, system_content, round_count, tool_calls>>
    /\ UNCHANGED <<registry_vars, query_vars, http_vars>>

\* The for loop visiting the content blocks last to first.
BlockOrder_LastFirst(content) == [i \in 1..Len(content) |-> Len(content) + 1 - i]

\* _execute_and_append_tools, line 220: the positions of the content blocks
\* in the order `for content_block in response.content` visits them.
BlockOrder(content) == [i \in 1..Len(content) |-> i]

\* The for loop with a try block around each execute_tool: a failure becomes
\* the result of its own invocation and the loop goes on.
ExecBlock_CatchesPerInvocation ==
    /\ pc = "exec"
    /\ blk <= Len(response.content)
    /\ LET block == response.content[BlockOrder(response.content)[blk]] IN
       IF block.type # "tool_use"
       THEN /\ blk' = blk + 1
            /\ UNCHANGED <<messages, round_count, tool_results, tool_calls, pc, outcome>>
       ELSE \E x \in execute_tool(tm_tools, block.name) :
            /\ tool_calls' = Append(tool_calls,
                   [name |-> block.name, id |-> block.id, res |-> x.res, ran |-> x.ran,
                    round |-> round_count + 1, n_api_calls |-> Len(api_calls)])
            /\ tool_results' = Append(tool_results,
                   [type |-> "tool_result", tool_use_id |-> block.id,
                    content |-> IF x.res.kind = "return" THEN x.res.value
                                ELSE <<"Tool execution failed: ", x.res.exc.msg>>])
            /\ blk' = blk + 1
            /\ UNCHANGED <<messages, round_count, pc, outcome>>
    /\ UNCHANGED <<tools, tool_manager, system_content, response, api_calls>>
    /\ UNCHANGED <<registry_vars, query_vars, http_vars>>

\* One iteration of the for loop of _execute_and_append_tools, lines 220-230,
\* and, when execute_tool raises, the handler of generate_response, lines
\* 135-145.
ExecBlock ==
    /\ pc = "exec"
    /\ blk <= Len(response.content)
    /\ LET block == response.content[BlockOrder(response.content)[blk]] IN
       IF block.type # "tool_use"
       THEN /\ blk' = blk + 1
            /\ UNCHANGED <<messages, round_count, tool_results, tool_calls, pc, outcome>>
       ELSE \E x \in execute_tool(tm_tools, block.name) :
            /\ tool_calls' = Append(tool_calls,
                   [name |-> block.name, id |-> block.id, res |-> x.res, ran |-> x.ran,
                    round |-> round_count + 1, n_api_calls |-> Len(api_calls)])
            /\ IF x.res.kind = "return"
               THEN /\ tool_results' = Append(tool_results,
                           [type |-> "tool_result", tool_use_id |-> block.id,
                            content |-> x.res.value])
                    /\ blk' = blk + 1
                    /\ UNCHANGED <<messages, round_count, pc, outcome>>
               ELSE IF FirstId(response.content).kind = "raise"
               THEN /\ Finish(FirstId(response.content))
                    /\ UNCHANGED <<messages, round_count, tool_results, blk>>
               ELSE /\ messages' = messages \o
                           << [role |-> "assistant", content |-> response.content],
                              [role |-> "user", content |-> <<ErrorResult(response, x.res.exc)>>] >>
                    /\ EndRound(round_count + 1)
                    /\ UNCHANGED <<tool_results, blk>>
    /\ UNCHANGED <<tools, tool_manager, system_content, response, api_calls>>
    /\ UNCHANGED <<registry_vars, query_vars, http_vars>>

\* The end of _execute_and_append_tools, lines 232-236, and line 134.
AppendResults ==
    /\ pc = "exec"
    /\ blk > Len(response.content)
    /\ messages' = IF tool_results # <<>>
                   THEN Append(messages, [role |-> "user", content |-> tool_results])
                   ELSE messages
    /\ EndRound(round_count + 1)
    /\ UNCHANGED <<tools, tool_manager, system_content, response, blk,
                   tool_results, api_calls, tool_calls>>
    /\ UNCHANGED <<registry_vars, query_vars, http_vars>>

\* The forced synthesis, lines 148-155.
ForcedSynthesis ==
    /\ pc = "synth"
    /\ LET params == ApiParams(messages, system_content, PyNone) IN
       \E called \in { ApiFailure(err) : err \in ApiErrors }
                     \cup { Return(r) : r \in Responses(Len(api_calls) + 1) } :
            /\ api_calls' = Append(api_calls, ApiCallEntry(params, called, "synth"))
            /\ Finish(Synthesis(called))
    /\ UNCHANGED <<tools, tool_manager, system_content, messages, round_count,
                   response, blk, tool_results, tool_calls>>
    /\ UNCHANGED <<registry_vars, query_vars, http_vars>>

\* The steps of a run of generate_response.
RunStep == ApiCall \/ ExecBlock \/ AppendResults \/ ForcedSynthesis

Next == RegisterTool \/ GenerateResponse \/ RunStep

Spec == Init /\ [][Next]_vars

\* A run that has started keeps taking steps until it returns or raises: the
\* code is sequential and every call it makes is blocking.
FairSpec == Spec /\ WF_vars(RunStep)

Done == pc \in {"returned", "raised"}

\* ---------------------------------------------- the calls on the registry

\* No call was made yet.
NoCall == [op |-> None]

\* The name a tool object registers under.
NameOf(tool) == DefinitionName(get_tool_definition(tool))

\* The names execute_tool may be called with.
CallNames == ToolNames \cup {"unknown_tool"}

\* tool_manager.register_tool(tool), for any tool object.
Registers(tool) ==
    /\ IF register_check(tool).kind = "raise"
       THEN /\ call' = [op |-> "register_tool", tool |-> tool, res |-> register_check(tool)]
            /\ UNCHANGED <<tm_tools, tm_values, reg_order, first_order>>
       ELSE /\ tm_tools' = register_tool(tm_tools, NameOf(tool))
            /\ tm_values' = register_value(tm_tools, tm_values, tool)
            /\ reg_order' =
                   IF tool \in Range(reg_order) THEN reg_order
                   ELSE Append(SelectSeq(reg_order, LAMBDA t : NameOf(t) # NameOf(tool)),
                               tool)
            /\ first_order' = IF NameOf(tool) \in Range(first_order) THEN first_order
                              ELSE Append(first_order, NameOf(tool))
            /\ call' = [op |-> "register_tool", tool |-> tool, res |-> Return(None)]
    /\ UNCHANGED <<last_sources, catalog, last_search>>
    /\ UNCHANGED <<gen_vars, query_vars, http_vars>>

\* tool_manager.register_tool(tool), for a tool of the repository or a tool
\* without a usable name.
RegisterToolCall == \E tool \in Tools : Registers(tool)

\* tool_manager.get_tool_definitions().
GetToolDefinitions ==
    /\ call' = [op |-> "get_tool_definitions", res |-> Return(get_tool_definitions(tm_values))]
    /\ UNCHANGED <<tm_tools, tm_values, reg_order, first_order, last_sources, catalog,
                   last_search>>
    /\ UNCHANGED <<gen_vars, query_vars, http_vars>>

\* tool_manager.execute_tool(tool_name, **kwargs).
Executes(tool_name, kwargs) ==
    /\ \E x \in execute_tool_call(tm_tools, tm_values, catalog, tool_name, kwargs) :
         /\ last_sources' = IF x.did.stores
                            THEN StoreSources(last_sources, x.ran, x.did.sources)
                            ELSE last_sources
         /\ last_search' = IF x.ran \in SearchTools /\ x.did.res.kind = "return"
                           THEN (IF x.did.stores THEN x.did.sources ELSE <<>>)
                           ELSE last_search
         /\ call' = [op |-> "execute_tool", tool_name |-> tool_name, kwargs |-> kwargs,
                     res |-> x.did.res, ran |-> x.ran, stores |-> x.did.stores]
    /\ UNCHANGED <<tm_tools, tm_values, reg_order, first_order, catalog>>
    /\ UNCHANGED <<gen_vars, query_vars, http_vars>>

\* tool_manager.execute_tool(tool_name, **kwargs), for any name and any
\* argument map.
ExecuteToolCall == \E tool_name \in CallNames, kwargs \in ArgMaps : Executes(tool_name, kwargs)

\* tool_manager.get_last_sources().
GetLastSources ==
    /\ call' = [op |-> "get_last_sources",
                res |-> Return(get_last_sources(tm_values, last_sources))]
    /\ UNCHANGED <<tm_tools, tm_values, reg_order, first_order, last_sources, catalog,
                   last_search>>
    /\ UNCHANGED <<gen_vars, query_vars, http_vars>>

\* tool_manager.reset_sources().
ResetSources ==
    /\ last_sources' = reset_sources(tm_values, last_sources)
    /\ last_search' = <<>>
    /\ call' = [op |-> "reset_sources", res |-> Return(None)]
    /\ UNCHANGED <<tm_tools, tm_values, reg_order, first_order, catalog>>
    /\ UNCHANGED <<gen_vars, query_vars, http_vars>>

\* Any client of the registry: any sequence of calls.
ToolNext ==
    RegisterToolCall \/ GetToolDefinitions \/ ExecuteToolCall \/ GetLastSources \/ ResetSources

\* ------------------------------------- several tools that keep citations

\* The tools registered in a registry with two kinds of tool that keep
\* citations.
TrackedTools == SlotTools \cup {CourseOutlineTool(1)}

\* The calls that make a registered tool produce citations: a search of one
\* lesson, which binds to the tracking tool's execute as well.
TrackedArgs == { k \in ArgMaps : k.keys = {"query"} \/ k.keys = {"query", "lesson_number"} }

\* tool_manager.register_tool(tool).
RegisterTracked == \E tool \in TrackedTools : Registers(tool)

\* tool_manager.execute_tool(tool_name, **kwargs) on a registered name.
ExecuteTracked ==
    \E tool_name \in Range(tm_tools), kwargs \in TrackedArgs : Executes(tool_name, kwargs)

SlotNext == RegisterTracked \/ ExecuteTracked \/ GetLastSources \/ ResetSources

\* ------------------------------------------------- two concurrent queries

\* The queries that run at the same time.
QueryIds == {1, 2}

\* The registry object a query runs against: one for both, or one each.
\* Every registry holds a CourseSearchTool and a CourseOutlineTool of its own.
RegistryOf(q) ==
    IF shared THEN <<CourseSearchTool(1), CourseOutlineTool(1)>>
    ELSE <<CourseSearchTool(q), CourseOutlineTool(1)>>

\* The keys of such a registry.
RegistryKeys == <<"search_course_content", "get_course_outline">>

\* The tool calls the model makes for a query: a search of one lesson, or
\* an outline.
QueryArgs == { k \in ArgMaps : k.keys \in {{"query", "lesson_number"}, {"course_name"}} }

\* RAGSystem.query, first part: generate_response runs and the model has
\* one tool executed through the query's registry.
QuerySearch(q) ==
    /\ q_pc[q] = "start"
    /\ \E tool_name \in ToolNames, kwargs \in QueryArgs :
       \E x \in execute_tool_call(RegistryKeys, RegistryOf(q), catalog, tool_name, kwargs) :
         /\ x.did.res.kind = "return"
         /\ last_sources' = IF x.did.stores
                            THEN StoreSources(last_sources, x.ran, x.did.sources)
                            ELSE last_sources
         /\ q_produced' = [q_produced EXCEPT ![q] = IF x.did.stores THEN x.did.sources ELSE <<>>]
    /\ q_pc' = [q_pc EXCEPT ![q] = "searched"]
    /\ UNCHANGED <<shared, q_collected, rag_query>>
    /\ UNCHANGED <<tm_tools, tm_values, reg_order, first_order, catalog, call, last_search>>
    /\ UNCHANGED <<gen_vars, http_vars>>

\* RAGSystem.query, second part: sources = tool_manager.get_last_sources().
QueryCollect(q) ==
    /\ q_pc[q] = "searched"
    /\ q_collected' = [q_collected EXCEPT ![q] = get_last_sources(RegistryOf(q), last_sources)]
    /\ q_pc' = [q_pc EXCEPT ![q] = "collected"]
    /\ UNCHANGED <<shared, q_produced, rag_query>>
    /\ UNCHANGED <<registry_vars, gen_vars, http_vars>>

\* RAGSystem.query, third part: tool_manager.reset_sources().
QueryReset(q) ==
    /\ q_pc[q] = "collected"
    /\ last_sources' = reset_sources(RegistryOf(q), last_sources)
    /\ q_pc' = [q_pc EXCEPT ![q] = "done"]
    /\ UNCHANGED <<shared, q_produced, q_collected, rag_query>>
    /\ UNCHANGED <<tm_tools, tm_values, reg_order, first_order, catalog, call, last_search>>
    /\ UNCHANGED <<gen_vars, http_vars>>

\* The two queries take their steps in any interleaving.
ConcNext == \E q \in QueryIds : QuerySearch(q) \/ QueryCollect(q) \/ QueryReset(q)

\* ------------------------------------------ one query and its tool rounds

\* The registry RAGSystem builds: the content-search tool and the outline
\* tool, registered in this order.
RagTools == <<CourseSearchTool(1), CourseOutlineTool(1)>>

\* The argument maps the model supplies in a tool round: a bare query, a
\* query with both filters, or a course name alone.
RoundArgs ==
    { k \in ArgMaps : k.keys \in {{"query"}, {"query", "course_name", "lesson_number"},
                                   {"course_name"}} }

\* One tool round of generate_response within RAGSystem.query: the model has
\* one tool executed through the registry (_execute_and_append_tools, lines
\* 220-230); whether execute_tool returns or raises, the round is counted.
ToolRound ==
    /\ rag_query.pc = "rounds"
    /\ Len(rag_query.rounds) < MAX_ROUNDS
    /\ \E tool_name \in ToolNames, kwargs \in RoundArgs :
       \E x \in execute_tool_call(tm_tools, tm_values, catalog, tool_name, kwargs) :
         /\ last_sources' = IF x.did.stores
                            THEN StoreSources(last_sources, x.ran, x.did.sources)
                            ELSE last_sources
         /\ rag_query' = [rag_query EXCEPT !.rounds =
                Append(@, [tool_name |-> tool_name, kwargs |-> kwargs, res |-> x.did.res,
                           ran |-> x.ran,
                           produced |-> IF x.did.stores THEN x.did.sources ELSE <<>>])]
    /\ UNCHANGED <<shared, q_pc, q_produced, q_collected>>
    /\ UNCHANGED <<tm_tools, tm_values, reg_order, first_order, catalog, call, last_search>>
    /\ UNCHANGED <<gen_vars, http_vars>>

\* RAGSystem.query once generate_response is back, after any number of
\* rounds: sources = tool_manager.get_last_sources().
CollectSources ==
    /\ rag_query.pc = "rounds"
    /\ rag_query' = [rag_query EXCEPT !.pc = "collected",
                                      !.sources = get_last_sources(tm_values, last_sources)]
    /\ UNCHANGED <<shared, q_pc, q_produced, q_collected>>
    /\ UNCHANGED <<registry_vars, gen_vars, http_vars>>

\* RAGSystem.query, next: tool_manager.reset_sources().
ResetCollected ==
    /\ rag_query.pc = "collected"
    /\ last_sources' = reset_sources(tm_values, last_sources)
    /\ rag_query' = [rag_query EXCEPT !.pc = "done"]
    /\ UNCHANGED <<shared, q_pc, q_produced, q_collected>>
    /\ UNCHANGED <<tm_tools, tm_values, reg_order, first_order, catalog, call, last_search>>
    /\ UNCHANGED <<gen_vars, http_vars>>

\* One query: its rounds, the collection of the citations, the reset.
RoundsNext == ToolRound \/ CollectSources \/ ResetCollected

\* ------------------------------------------------------- POST /api/query

\* Largest number of requests handled.
MaxRequests == 2

\* The ids SessionManager.create_session gives, in the order it gives them.
SessionIds == <<"session_1", "session_2", "session_3", "session_4">>

\* SessionManager.create_session: a fresh id.
create_session(created) == SessionIds[Len(created) + 1]

\* The exception classes a query may raise, and those that are ValueError
\* or derive from it.
ExcTypes == {"ValueError", "UnicodeDecodeError", "RuntimeError", "AttributeError"}

ValueErrors == {"ValueError", "UnicodeDecodeError"}

\* What rag_system.query(query, session_id) may do.
QueryOutcomes ==
    { Return([answer |-> <<"This is a test answer.">>, sources |-> srcs]) :
        srcs \in { <<>>, <<[text |-> <<"Test Course", " - Lesson ", "1">>,
                            link |-> "https://example.com/lesson1"]>> } }
    \cup { Raise(t, <<"Database connection lost">>) : t \in ExcTypes }

\* The session_id of a request body: absent (None), empty, or an id.
RequestSessionIds(created) == {None, "", "test-session-123"} \cup Range(created)

\* query_documents creating a session for every request.
NeedsSession_Always(session_id) == TRUE

\* query_documents, line 77: `if not session_id`.
NeedsSession(session_id) == session_id = None \/ session_id = ""

\* query_documents handling every exception the way it handles ValueError.
HandleFailure_AllAsValueError(exc) == [status |-> 500, detail |-> exc.msg]

\* query_documents, lines 93-103: the response for an exception raised in
\* the try block.
HandleFailure(exc) ==
    IF exc.type \in ValueErrors
    THEN [status |-> 500, detail |-> exc.msg]
    ELSE [status |-> 500, detail |-> <<"Query processing failed: ", exc.type, ": ", exc.msg>>]

\* query_documents, lines 72-103: one request handled.
QueryDocuments ==
    /\ Len(http) < MaxRequests
    /\ \E query \in Queries, sid \in RequestSessionIds(sessions), result \in QueryOutcomes :
         LET created == IF NeedsSession(sid) THEN <<create_session(sessions)>> ELSE <<>>
             session_id == IF NeedsSession(sid) THEN create_session(sessions) ELSE sid
             resp == IF result.kind = "return"
                     THEN [status |-> 200, answer |-> result.value.answer,
                           sources |-> result.value.sources, session_id |-> session_id]
                     ELSE HandleFailure(result.exc)
         IN  /\ sessions' = sessions \o created
             /\ http' = Append(http,
                    [request |-> [query |-> query, session_id |-> sid],
                     created |-> created, passed |-> session_id,
                     result |-> result, response |-> resp])
    /\ UNCHANGED <<gen_vars, registry_vars, query_vars>>

\* ------------------------------------------------------ the specifications

\* The registry under any sequence of calls, over any catalog.
ToolInit == GenInit /\ RegistryInit /\ catalog \in Catalogs /\ QueryInit /\ HttpInit

ToolSpec == ToolInit /\ [][ToolNext]_vars

\* Two queries at once, on one registry or on one each.
ConcInit ==
    /\ GenInit /\ RegistryInit /\ catalog = Titles /\ HttpInit
    /\ shared \in BOOLEAN
    /\ q_pc = [q \in QueryIds |-> "start"]
    /\ q_produced = [q \in QueryIds |-> <<>>]
    /\ q_collected = [q \in QueryIds |-> <<>>]
    /\ rag_query = [pc |-> "rounds", rounds |-> <<>>, sources |-> <<>>]

ConcSpec == ConcInit /\ [][ConcNext]_vars

\* A registry of tools of which several keep citations.
SlotInit == GenInit /\ RegistryInit /\ catalog = Titles /\ QueryInit /\ HttpInit

SlotSpec == SlotInit /\ [][SlotNext]_vars

\* One query through its tool rounds, on the registry RAGSystem builds, over
\* any catalog; the previous query has reset the citations.
RoundsInit ==
    /\ GenInit /\ QueryInit /\ HttpInit
    /\ tm_tools = <<"search_course_content", "get_course_outline">>
    /\ tm_values = RagTools
    /\ reg_order = RagTools
    /\ first_order = <<"search_course_content", "get_course_outline">>
    /\ last_sources = [t \in SlotTools |-> <<>>]
    /\ catalog \in Catalogs
    /\ call = NoCall
    /\ last_search = <<>>

RoundsSpec == RoundsInit /\ [][RoundsNext]_vars

\* The endpoint handling one request after another.
HttpSpec == Init /\ [][QueryDocuments]_vars

\* ----------------------------------------------------- reading the logs

\* The k-th model call came back with a response (it did not fail).
Answered(k) == k \in 1..Len(api_calls) /\ api_calls[k].result.kind = "return"

\* The response of the k-th model call.
Resp(k) == api_calls[k].result.value

\* The k-th model call failed.
Failed(k) == k \in 1..Len(api_calls) /\ api_calls[k].result.kind = "raise"

\* The message history submitted with the k-th model call.
History(k) == api_calls[k].params.messages

\* The tool-invocation blocks of a content list, in order.
ToolUses(content) == SelectSeq(content, LAMBDA b : b.type = "tool_use")

\* A response requests tools: it carries the tool_use signal and names at
\* least one invocation.
RequestsTools(r) == r.stop_reason = "tool_use" /\ ToolUses(r.content) # <<>>

\* The response is a direct answer.
DirectAnswer(r) == r.stop_reason # "tool_use"

\* The rounds in which a tool was executed.
ToolRounds == { tool_calls[i].round : i \in 1..Len(tool_calls) }

\* The model calls made from the forced-synthesis branch.
SynthCalls == { k \in 1..Len(api_calls) : api_calls[k].site = "synth" }

\* The text of the tool result that reports the failure exc.
FailureText(exc) == <<"Tool execution failed: ", exc.msg>>

\* ------------------------------------------------------------------- C1

\* C1: every run of generate_response halts.  At every moment the run has
\* counted at most MAX_ROUNDS rounds, has executed tools in at most
\* MAX_ROUNDS rounds, has made at most MAX_ROUNDS model calls from the loop
\* and at most one forced-synthesis call; and a run that has started
\* eventually returns or raises, whatever the model answers and whatever
\* the tools do.
C1_RunHalts ==
    /\ [](/\ round_count <= MAX_ROUNDS
          /\ Cardinality(ToolRounds) <= MAX_ROUNDS
          /\ Cardinality(SynthCalls) <= 1
          /\ Len(api_calls) - Cardinality(SynthCalls) <= MAX_ROUNDS)
    /\ ((pc # "idle") ~> Done)

\* C1 witness: a run that went through MAX_ROUNDS rounds, one of them with a
\* failing tool, and the forced synthesis, and has ended.
C1_Witness ==
    /\ Done
    /\ round_count = MAX_ROUNDS
    /\ SynthCalls # {}
    /\ \E i \in 1..Len(tool_calls) : tool_calls[i].res.kind = "raise"

\* ------------------------------------------------------------------- C2

\* C2: when the first model response is a direct answer, the run makes
\* exactly one model call, executes no tool and returns the text of that
\* response, whatever tools and tool manager were supplied.
C2_DirectAnswerReturnsItsText ==
    (Answered(1) /\ DirectAnswer(Resp(1))) =>
        /\ Done
        /\ Len(api_calls) = 1
        /\ tool_calls = <<>>
        /\ outcome.kind = "return"
        /\ Len(Resp(1).content) > 0
        /\ Resp(1).content[1].type = "text"
        /\ outcome.value = Resp(1).content[1].text

\* ------------------------------------------------------------------- C3

\* The roles of a message history, in order.
Roles(history) == [j \in 1..Len(history) |-> history[j].role]

\* C3: in every run where the first model response requests tools and the
\* second is a direct answer, exactly two model calls occur and the history
\* submitted with the second call has exactly 3 messages: the user query,
\* the assistant tool-request message and one user message with the results.
C3_SingleRoundHistoryHasThreeMessages ==
    (Answered(1) /\ RequestsTools(Resp(1)) /\ Answered(2) /\ DirectAnswer(Resp(2))) =>
        /\ Len(api_calls) = 2
        /\ Len(History(2)) = 3
        /\ Roles(History(2)) = <<"user", "assistant", "user">>
        /\ History(2)[1] = History(1)[1]
        /\ History(2)[2].content = Resp(1).content

\* ------------------------------------------------------------------- C4

\* Invocation id a was requested before invocation id b: in an earlier
\* response, or earlier in the same response.
RequestedBefore(a, b) == a[2] < b[2] \/ (a[2] = b[2] /\ a[3] < b[3])

\* C4: in every run where the model requests tools in its first and second
\* responses, exactly three model calls occur, the tools are executed in the
\* order the model requested them, and the history submitted with the third
\* call has exactly 5 messages.
C4_TwoRoundsHistoryHasFiveMessages ==
    (Done /\ Answered(1) /\ RequestsTools(Resp(1))
          /\ Answered(2) /\ RequestsTools(Resp(2))) =>
        /\ Len(api_calls) = 3
        /\ \A i, j \in 1..Len(tool_calls) :
              i < j => RequestedBefore(tool_calls[i].id, tool_calls[j].id)
        /\ Len(History(3)) = 5
        /\ Roles(History(3)) = <<"user", "assistant", "user", "assistant", "user">>

\* ------------------------------------------------------------------- C5

\* C5: when the model requests tools in every response it is allowed to, the
\* run performs exactly MAX_ROUNDS tool rounds, then makes exactly one more
\* model call with the tool catalog withheld and returns that call's text;
\* no tool is executed after the round limit is reached.  (Stated for runs
\* in which no model call fails and the last call's answer begins with a
\* text block.)
C5_RoundLimitThenOneSynthesisCall ==
    (/\ Done
     /\ \A k \in 1..Len(api_calls) : Answered(k)
     /\ \A k \in 1..Len(api_calls) : k <= MAX_ROUNDS => RequestsTools(Resp(k))
     /\ Len(api_calls) > MAX_ROUNDS => FirstText(Resp(MAX_ROUNDS + 1).content).kind = "return"
     /\ Len(api_calls) >= 1
     /\ tool_manager # None) =>
        /\ round_count = MAX_ROUNDS
        /\ ToolRounds = 1..MAX_ROUNDS
        /\ Len(api_calls) = MAX_ROUNDS + 1
        /\ "tools" \notin DOMAIN api_calls[MAX_ROUNDS + 1].params
        /\ \A i \in 1..Len(tool_calls) : tool_calls[i].n_api_calls <= MAX_ROUNDS
        /\ outcome = FirstText(Resp(MAX_ROUNDS + 1).content)

\* ------------------------------------------------------------------- C6

\* C6: a tool execution that raises never aborts the run: generate_response
\* does not raise because of it, the next model call is still made, and the
\* history of that call ends with a user message holding a tool-result block
\* whose text is "Tool execution failed: " followed by the failure message.
C6_ToolFailureNeverAbortsTheRun ==
    \A i \in 1..Len(tool_calls) :
        LET e == tool_calls[i]
            next == e.n_api_calls + 1
        IN  e.res.kind = "raise" =>
              /\ pc \in {"loop", "synth"} \/ Len(api_calls) >= next
              /\ Len(api_calls) >= next =>
                    LET last == History(next)[Len(History(next))]
                    IN  /\ last.role = "user"
                        /\ \E j \in 1..Len(last.content) :
                              /\ last.content[j].type = "tool_result"
                              /\ last.content[j].content = FailureText(e.res.exc)

\* ------------------------------------------------------------------- C7

\* C7: when a model call fails, in a loop round or in the forced synthesis,
\* the run ends with one raised ValueError that describes the failure, and no
\* further model call and no further tool execution is made; the tools
\* executed before the failing call stay executed.
C7_ApiFailureEndsTheRun ==
    \A k \in 1..Len(api_calls) :
        Failed(k) =>
            /\ k = Len(api_calls)
            /\ pc = "raised"
            /\ outcome.kind = "raise"
            /\ outcome.exc.type = "ValueError"
            /\ \/ outcome.exc.msg = api_calls[k].result.exc.msg
               \/ outcome.exc.msg =
                     <<"Error synthesizing final response: ", api_calls[k].result.exc.msg>>
            /\ api_calls[k].result.exc.type = "ValueError"
            /\ Len(tool_calls) = api_calls[k].n_tool_calls
            /\ \A i \in 1..Len(tool_calls) : tool_calls[i].n_api_calls < k

\* C7 witness: the model call that follows a tool round has failed.
C7_Witness ==
    /\ Len(api_calls) >= 2
    /\ Failed(Len(api_calls))
    /\ tool_calls # <<>>
    /\ pc = "raised"

\* ------------------------------------------------------------------- C8

\* C8: if the model requests tools but no tool manager was supplied,
\* generate_response returns after exactly one model call, executes no tool,
\* appends nothing to the history and does not loop.
C8_NoToolManagerReturnsAfterOneCall ==
    (Answered(1) /\ RequestsTools(Resp(1)) /\ tool_manager = None) =>
        /\ pc = "returned"
        /\ outcome.kind = "return"
        /\ Len(api_calls) = 1
        /\ tool_calls = <<>>
        /\ messages = History(1)

\* ------------------------------------------------------------------- C9

\* C9: given a non-empty tool catalog, every model call made while rounds
\* remain carries the catalog, the forced-synthesis call is the only call
\* made without it, and forced synthesis is entered only after exactly
\* MAX_ROUNDS rounds were consumed with the model's last response still
\* requesting tools.
C9_CatalogSentWhileRoundsRemain ==
    Truthy(tools) =>
        /\ \A k \in 1..Len(api_calls) :
              LET c == api_calls[k] IN
              /\ c.round_count < MAX_ROUNDS =>
                    /\ "tools" \in DOMAIN c.params
                    /\ c.params.tools = tools.items
              /\ "tools" \notin DOMAIN c.params => c.site = "synth"
              /\ c.site = "synth" =>
                    /\ "tools" \notin DOMAIN c.params
                    /\ c.round_count = MAX_ROUNDS
                    /\ Answered(k - 1)
                    /\ Resp(k - 1).stop_reason = "tool_use"
        /\ Cardinality(SynthCalls) <= 1
        /\ pc = "synth" => round_count = MAX_ROUNDS /\ response.stop_reason = "tool_use"

\* C9 witness: a run with a catalog has made both loop calls and the
\* forced-synthesis call.
C9_Witness ==
    /\ Truthy(tools)
    /\ Len(api_calls) = MAX_ROUNDS + 1
    /\ SynthCalls # {}

\* ------------------------------------------------------------------ C10

\* The text execute_tool is to return for a name that is not registered.
NotFoundText(name) == <<"Tool '", name, "' not found">>

\* The results of tool_calls[i]'s round reached the model: some user message
\* of the history holds a tool-result block with its id and the text.
Delivered(i, text) ==
    \E j \in 2..Len(messages) :
        /\ messages[j].role = "user"
        /\ \E b \in 1..Len(messages[j].content) :
              messages[j].content[b] =
                  [type |-> "tool_result", tool_use_id |-> tool_calls[i].id, content |-> text]

\* Some invocation of round r raised.
RoundRaised(r) ==
    \E i \in 1..Len(tool_calls) : tool_calls[i].round = r /\ tool_calls[i].res.kind = "raise"

\* C10: execute_tool called with a name that is not registered returns the
\* text "Tool '<name>' not found", does not raise and runs no registered
\* tool; in the orchestrator the text is appended as an ordinary tool result,
\* the for loop goes on to the next block, and once the round is counted
\* (no invocation of it having raised) the text is in the history.
C10_UnknownToolIsAnOrdinaryResult ==
    /\ [](\A i \in 1..Len(tool_calls) :
            LET e == tool_calls[i] IN
            e.name \notin Range(tm_tools) =>
                /\ e.res = Return(NotFoundText(e.name))
                /\ e.ran = None
                /\ (round_count >= e.round /\ ~RoundRaised(e.round)) =>
                       Delivered(i, NotFoundText(e.name)))
    /\ [][(/\ pc = "exec"
           /\ blk <= Len(response.content)
           /\ response.content[blk].type = "tool_use"
           /\ response.content[blk].name \notin Range(tm_tools)) =>
              /\ pc' = "exec"
              /\ blk' = blk + 1
              /\ Len(tool_calls') = Len(tool_calls) + 1
              /\ tool_results' = Append(tool_results,
                     [type |-> "tool_result",
                      tool_use_id |-> response.content[blk].id,
                      content |-> NotFoundText(response.content[blk].name)])
              /\ UNCHANGED <<messages, round_count, outcome>>]_vars

\* C10 witness: a round that invoked an unregistered name has been counted
\* and the next model call was made with the not-found text in its history.
C10_Witness ==
    \E i \in 1..Len(tool_calls) :
        /\ tool_calls[i].name \notin Range(tm_tools)
        /\ Len(api_calls) > tool_calls[i].n_api_calls
        /\ Delivered(i, NotFoundText(tool_calls[i].name))

\* ------------------------------------------------- reading the last call

\* The last call was execute_tool.
Executed == call.op = "execute_tool"

\* The last call was execute_tool and it reached the execute() of a
\* CourseSearchTool, which ran to its end.
Searched == Executed /\ call.ran \in SearchTools /\ call.res.kind = "return"

\* The tool registered last under a name.
Latest(name) == SelectSeq(reg_order, LAMBDA t : NameOf(t) = name)[1]

\* ------------------------------------------------------------------ C11

\* C11: tool execution never raises across the registry boundary: whatever
\* the name, the argument map and the store's outcome, execute_tool returns
\* a text.
C11_ExecuteToolNeverRaises ==
    Executed => call.res.kind = "return"

\* ------------------------------------------------------------------ C12

\* C12: get_last_sources returns exactly the citations the most recent
\* content search produced (none when it gave an error or no rows), and an
\* empty list after reset_sources until a search produces citations.
\* (Stated for a registry whose content-search tool is CourseSearchTool(1),
\* no other CourseSearchTool having produced citations.)
C12_LastSourcesAreTheMostRecentSearch ==
    (/\ call.op = "get_last_sources"
     /\ CourseSearchTool(1) \in Range(tm_values)
     /\ last_sources[CourseSearchTool(2)] = <<>>) =>
        call.res.value = last_search

\* ------------------------------------------------------------------ C13

\* C13: names are unique in the registry after any sequence of register_tool
\* calls; registering a tool under a registered name replaces the earlier
\* tool without an error, execute_tool on the name runs the tool registered
\* last, and get_tool_definitions holds exactly one entry of that name.
C13_LastRegistrationWins ==
    /\ Len(tm_values) = Len(tm_tools)
    /\ \A i, j \in 1..Len(tm_tools) : tm_tools[i] = tm_tools[j] => i = j
    /\ Range(tm_tools) = { NameOf(t) : t \in Range(reg_order) }
    /\ \A name \in Range(tm_tools) :
          /\ ToolAt(tm_tools, tm_values, name) = Latest(name)
          /\ Cardinality({ i \in 1..Len(tm_values) :
                             get_tool_definitions(tm_values)[i].name = name }) = 1
    /\ (Executed /\ call.tool_name \in Range(tm_tools)) =>
          /\ call.ran = Latest(call.tool_name)
          /\ call.res \in { d.res : d \in Execute(Latest(call.tool_name), catalog, call.kwargs) }
    /\ (call.op = "register_tool" /\ NameOf(call.tool) \notin {None, ""}) =>
          /\ call.res = Return(None)
          /\ ToolAt(tm_tools, tm_values, NameOf(call.tool)) = call.tool

\* C13 witness: CourseSearchTool(1) was registered and ran a search, then
\* CourseSearchTool(2) was registered under the same name, and execute_tool
\* on the name has run CourseSearchTool(2).
C13_Witness ==
    /\ Searched
    /\ call.ran = CourseSearchTool(2)
    /\ last_sources[CourseSearchTool(1)] # <<>>
    /\ Len(tm_tools) = 2

\* ------------------------------------------------------------------ C14

\* The definitions of a sequence of tools, in its order.
DefinitionsOf(tool_seq) == [i \in 1..Len(tool_seq) |-> get_tool_definition(tool_seq[i])]

\* C14 as claimed: get_tool_definitions returns one schema object per
\* registered tool, in the order in which the registered tools were
\* registered, also when a name was registered again.
C14_DefinitionsInRegistrationOrder ==
    call.op = "get_tool_definitions" => call.res.value = DefinitionsOf(reg_order)

\* C14 as amended: get_tool_definitions returns one schema object per
\* registered name, in the order in which the names were first registered;
\* a name registered again keeps its place and carries the schema of the
\* tool registered last.
C14_DefinitionsInFirstRegistrationOrder ==
    call.op = "get_tool_definitions" =>
        /\ Len(call.res.value) = Len(first_order)
        /\ Len(call.res.value) = Len(reg_order)
        /\ \A i \in 1..Len(first_order) :
              /\ call.res.value[i].name = first_order[i]
              /\ call.res.value[i] = get_tool_definition(Latest(first_order[i]))

\* C14 witness: get_tool_definitions was called on a registry whose first
\* name was registered again after the second.
C14_Witness ==
    /\ call.op = "get_tool_definitions"
    /\ Len(reg_order) = 2
    /\ NameOf(reg_order[2]) = first_order[1]

\* ------------------------------------------------------------------ C15

\* The other of the two queries.
Other(q) == 3 - q

\* Query q has collected its citations.
HasCollected(q) == q_pc[q] \in {"collected", "done"}

\* C15: a query collects citations that are not those of its own search only
\* when both queries run against the same registry object, and what it then
\* collects is what the other query's search produced, or nothing (the
\* other query's reset has cleared the slot); with a registry of its own a
\* query always collects the citations of its own search.  The tools'
\* last_sources slots are the only state the two queries share.
C15_InterferenceOnlyThroughTheSharedSlot ==
    \A q \in QueryIds :
        (HasCollected(q) /\ q_collected[q] # q_produced[q]) =>
            /\ shared
            /\ q_pc[Other(q)] # "start"
            /\ q_collected[q] = q_produced[Other(q)] \/ q_collected[q] = <<>>

\* C15 witness: on a shared registry query 1 has collected the citations of
\* query 2's search instead of its own, and query 2, collecting after query
\* 1's reset, has lost the citations its search produced.
C15_Witness ==
    /\ shared
    /\ HasCollected(1) /\ HasCollected(2)
    /\ q_produced[2] # <<>>
    /\ q_produced[1] # q_produced[2]
    /\ q_collected[1] = q_produced[2]
    /\ q_collected[2] = <<>>

\* ------------------------------------------------------------------ C16

\* The text holds the value as one of its pieces.
Names(text, value) == value \in Range(text)

\* The text a search returns when the store's query itself failed.
SearchFailureText == <<"Search error: ", "connection lost">>

\* The course filter of the last search matched nothing: the name resolved
\* to no course, or no chunk of the course it resolved to passed the filter.
NoCourseMatched ==
    /\ Searched
    /\ Given(call.kwargs, "course_name")
    /\ call.res.value # SearchFailureText
    /\ \A r \in search(catalog, call.kwargs) : r.documents = <<>>

\* C16: a content search whose course filter matches no course yields a
\* search result for which is_empty() is true, and the text the tool returns
\* names the filters applied: the course name, and the lesson number when
\* one was given.
C16_NoMatchIsEmptyAndNamesTheFilters ==
    NoCourseMatched =>
        /\ \E r \in search(catalog, call.kwargs) :
              /\ is_empty(r)
              /\ SearchExecute(catalog, call.kwargs, r).res = call.res
        /\ Names(call.res.value, call.kwargs.course_name)
        /\ Given(call.kwargs, "lesson_number") =>
              Names(call.res.value, ToString(call.kwargs.lesson_number))

\* ------------------------------------------------------------------ C17

\* The requests handled before the i-th one.
Earlier(i) == 1..(i - 1)

\* The i-th request was answered with status 200.
Succeeded(i) == http[i].response.status = 200

\* The session rule of POST /api/query, for a given set of session_id
\* values that count as "no session_id": such a request creates exactly one
\* session, a new one, which is the id passed to the query and returned;
\* any other request creates none, passes its id to the query and has it
\* echoed; a request reusing a returned id runs in the session of the
\* request that returned it.
SessionRule(absent) ==
    /\ \A i \in 1..Len(http) :
          LET h == http[i]
              sid == h.request.session_id
          IN  /\ sid \in absent =>
                    /\ Len(h.created) = 1
                    /\ \A j \in Earlier(i) : h.created[1] \notin Range(http[j].created)
                    /\ h.created[1] \in Range(sessions)
                    /\ h.passed = h.created[1]
                    /\ Succeeded(i) => h.response.session_id = h.created[1]
              /\ sid \notin absent =>
                    /\ h.created = <<>>
                    /\ h.passed = sid
                    /\ Succeeded(i) => h.response.session_id = sid
    /\ \A i \in 1..Len(http) : \A j \in Earlier(i) :
          (Succeeded(j) /\ http[i].request.session_id = http[j].response.session_id) =>
              /\ http[i].created = <<>>
              /\ http[i].passed = http[j].passed
    /\ Len(sessions) =
          Cardinality({ i \in 1..Len(http) : http[i].request.session_id \in absent })

\* C17: POST /api/query without a session_id creates exactly one new
\* session and returns its id; with a session_id it creates no session,
\* passes that id to the query and echoes the same id in the response, so a
\* follow-up request reusing the returned id stays in the same session.
C17_SessionCreatedOnlyWithoutId == SessionRule({None})

\* C17 as it holds: a session_id that is the empty string counts as none.  A
\* request whose session_id is absent or empty creates exactly one new
\* session and returns its id; a request with a non-empty session_id creates
\* none, passes that id to the query and has it echoed, so a follow-up
\* request reusing the returned id stays in the same session.
C17_SessionCreatedWithoutOrWithEmptyId == SessionRule({None, ""})

\* C17 witness: a first request without session_id was answered with a new
\* session's id, and a second request reused that id and was answered.
C17_Witness ==
    /\ Len(http) = 2
    /\ http[1].request.session_id = None
    /\ Succeeded(1)
    /\ http[2].request.session_id = http[1].response.session_id
    /\ Succeeded(2)
    /\ Len(sessions) = 1

\* ------------------------------------------------------------------ C18

\* The query of the i-th request raised.
QueryFailed(i) == http[i].result.kind = "raise"

\* C18: every failure of query processing reaches the HTTP caller as a
\* single 500 response whose detail holds the failure message: the message
\* of a ValueError verbatim, any other exception as "Query processing
\* failed: <type>: <message>"; no exception escapes the endpoint and no
\* partial answer is returned.
C18_EveryFailureIsOne500WithTheMessage ==
    \A i \in 1..Len(http) :
        LET h == http[i]
            exc == h.result.exc
        IN  /\ h.response.status \in {200, 500}
            /\ h.response.status = 500 <=> QueryFailed(i)
            /\ QueryFailed(i) =>
                  /\ DOMAIN h.response = {"status", "detail"}
                  /\ exc.type \in ValueErrors => h.response.detail = exc.msg
                  /\ exc.type \notin ValueErrors =>
                        h.response.detail =
                            <<"Query processing failed: ", exc.type, ": ", exc.msg>>

\* C18 witness: two requests failed, one with a ValueError and one with an
\* exception of another class, and both were answered with status 500.
C18_Witness ==
    /\ Len(http) = 2
    /\ QueryFailed(1) /\ http[1].result.exc.type = "ValueError"
    /\ QueryFailed(2) /\ http[2].result.exc.type = "RuntimeError"
    /\ http[1].response.status = 500
    /\ http[2].response.status = 500

\* ------------------------------------------------------------------ C19

\* The last call was execute_tool and it reached the execute() of the
\* CourseOutlineTool, which ran to its end.
Outlined == Executed /\ call.ran = CourseOutlineTool(1) /\ call.res.kind = "return"

\* The text of the outline tool for a name that does not resolve.
UnresolvedText(raw) ==
    <<"No course found matching '", raw,
      "'. Please try a different course name or check available courses.">>

ToolRoundAt(j) ==
    /\ j \in 1..(Len(messages) - 1)
    /\ messages[j].role = "assistant"
    /\ messages[j + 1].role = "user"

\* C20: in every tool round the user message appended to the history holds
\* exactly one tool-result block per tool-invocation block of the model's
\* message, in the same order, each carrying the invocation id of its
\* invocation; text blocks in the model's message produce no tool-result.
C20_OneResultPerInvocationInOrder ==
    \A j \in 1..Len(messages) :
        ToolRoundAt(j) =>
            LET uses == ToolUses(messages[j].content)
                results == messages[j + 1].content
            IN  /\ Len(results) = Len(uses)
                /\ \A b \in 1..Len(results) :
                      /\ results[b].type = "tool_result"
                      /\ b <= Len(uses) => results[b].tool_use_id = uses[b].id

\* ------------------------------------------------------------------ C21

\* The invocation blocks of the response whose round executed tool_calls[i].
InvocationsOf(i) == ToolUses(Resp(tool_calls[i].n_api_calls).content)

\* The tool-result block the model is to get for tool_calls[i]: the text the
\* tool returned, or the failure text when it raised, under the invocation's
\* own id.
ResultFor(i) ==
    [type |-> "tool_result",
     tool_use_id |-> tool_calls[i].id,
     content |-> IF tool_calls[i].res.kind = "raise"
                 THEN FailureText(tool_calls[i].res.exc)
                 ELSE tool_calls[i].res.value]

\* C21: when one of several tool invocations in a round raises, the
\* "Tool execution failed: <message>" result is substituted for that
\* invocation only: it carries the failing invocation's id, and the results
\* of the other invocations of the same round are still delivered to the
\* model in the same user message (one block per invocation of the round,
\* in order).
C21_FailureReplacesOnlyTheFailingInvocation ==
    \A i \in 1..Len(tool_calls) :
        (tool_calls[i].res.kind = "raise" /\ Len(InvocationsOf(i)) > 1) =>
            \E j \in 2..Len(messages) :
                /\ messages[j].role = "user"
                /\ Len(messages[j].content) = Len(InvocationsOf(i))
                /\ \A b \in 1..Len(messages[j].content) :
                      messages[j].content[b].tool_use_id = InvocationsOf(i)[b].id
                /\ \A c \in 1..Len(tool_calls) :
                      tool_calls[c].round = tool_calls[i].round =>
                          \E b \in 1..Len(messages[j].content) :
                              messages[j].content[b] = ResultFor(c)

\* ------------------------------------------------------------------ C22

\* The messages of the history that are the model's.
AssistantMessages == SelectSeq(messages, LAMBDA m : m.role = "assistant")

\* The run stands between rounds: it is not inside a tool round.
BetweenRounds == pc \in {"loop", "synth", "returned", "raised"}

\* C22: the model's tool-requesting message is appended to the history
\* verbatim and exactly once per round, on the success path and on the
\* tool-failure path alike, so after k consumed rounds the history holds
\* exactly k assistant messages, the k-th being the content of the k-th
\* response.
C22_OneAssistantMessagePerRound ==
    BetweenRounds =>
        /\ Len(AssistantMessages) = round_count
        /\ \A k \in 1..Len(AssistantMessages) :
              k <= Len(api_calls) /\ Answered(k) =>
                  AssistantMessages[k].content = Resp(k).content

\* ------------------------------------------------------------------ C23

\* The model requested tools in every response of the loop, no model call
\* failed, every tool execution raised, and the run is over.
EveryToolFailed ==
    /\ Done
    /\ tool_manager # None
    /\ Len(api_calls) >= 1
    /\ \A k \in 1..Len(api_calls) : Answered(k)
    /\ \A k \in 1..Len(api_calls) : k <= MAX_ROUNDS => RequestsTools(Resp(k))
    /\ Len(api_calls) > MAX_ROUNDS => FirstText(Resp(MAX_ROUNDS + 1).content).kind = "return"
    /\ \A i \in 1..Len(tool_calls) : tool_calls[i].res.kind = "raise"

\* A tool execution raises in this step.
ToolRaises ==
    /\ Len(tool_calls') = Len(tool_calls) + 1
    /\ tool_calls'[Len(tool_calls')].res.kind = "raise"

\* C23: a round in which a tool execution raises counts as a consumed round:
\* the round counter is incremented exactly once for it, so a run in which
\* every tool execution fails and the model keeps requesting tools still
\* performs exactly MAX_ROUNDS rounds followed by one forced-synthesis call.
C23_FailedRoundIsCountedOnce ==
    /\ [][ToolRaises => round_count' = round_count + 1]_vars
    /\ [](EveryToolFailed =>
            /\ round_count = MAX_ROUNDS
            /\ ToolRounds = 1..MAX_ROUNDS
            /\ Len(api_calls) = MAX_ROUNDS + 1
            /\ SynthCalls = {MAX_ROUNDS + 1})

\* ------------------------------------------------------------------ C24

\* The number of tool executions completed when the k-th model call was
\* issued.
DoneBefore(k) == api_calls[k].n_tool_calls

\* C24: within a run model calls and tool executions never overlap: each
\* tool execution of round k starts after model response k was received and
\* completes before model call k+1 is issued, and the tool executions of one
\* round run one at a time in the order the model listed them.
C24_CallsAndExecutionsNeverOverlap ==
    /\ [](\A i \in 1..Len(tool_calls) :
            LET e == tool_calls[i]
                k == e.n_api_calls
            IN  /\ k \in 1..Len(api_calls)
                /\ Answered(k)
                /\ e.round = k
                /\ api_calls[k].round_count = k - 1
                /\ i > DoneBefore(k)
                /\ i - DoneBefore(k) <= Len(ToolUses(Resp(k).content))
                /\ e.id = ToolUses(Resp(k).content)[i - DoneBefore(k)].id
                /\ e.name = ToolUses(Resp(k).content)[i - DoneBefore(k)].name
                /\ \A n \in 1..Len(api_calls) : n > k => i <= DoneBefore(n))
    /\ [][/\ Len(api_calls') <= Len(api_calls) + 1
          /\ Len(tool_calls') <= Len(tool_calls) + 1
          /\ ~(api_calls' # api_calls /\ tool_calls' # tool_calls)
          /\ tool_calls' # tool_calls => pc = "exec" /\ api_calls' = api_calls
          /\ api_calls' # api_calls => pc \in {"loop", "synth"} /\ tool_calls' = tool_calls]_vars

\* C24 witness: the first response listed two invocations, both were
\* executed, in that order, and the second model call was issued after them.
C24_Witness ==
    /\ Len(api_calls) >= 2
    /\ Len(tool_calls) >= 2
    /\ DoneBefore(2) = 2
    /\ tool_calls[1].id = <<"toolu", 1, 1>>
    /\ tool_calls[2].id = <<"toolu", 1, 2>>

\* ------------------------------------------------------------------ C25

\* Sequence s begins with sequence t.
BeginsWith(s, t) == Len(s) >= Len(t) /\ SubSeq(s, 1, Len(t)) = t

\* The kinds of content block a message of the history holds.
BlockTypes == {"text", "tool_use", "tool_result"}

\* C25: within one run the message history only grows by appending: the
\* history submitted with each model call is a prefix-extension of the
\* history submitted with the previous call, its first message is always the
\* original user query, and prior conversation history appears only in the
\* system text (identical in every call of the run), never as messages.
C25_HistoryOnlyGrowsByAppending ==
    /\ [](\A k \in 1..Len(api_calls) :
            /\ Len(History(k)) >= 1
            /\ k = 1 => /\ Len(History(1)) = 1
                        /\ History(1)[1].role = "user"
                        /\ History(1)[1].content \in Queries
            /\ k > 1 => /\ BeginsWith(History(k), History(k - 1))
                        /\ Len(History(k)) > Len(History(k - 1))
            /\ BeginsWith(messages, History(k))
            /\ api_calls[k].params.system = system_content
            /\ system_content \in { SystemContent(h) : h \in Histories }
            /\ \A j \in 2..Len(History(k)) :
                  \A b \in 1..Len(History(k)[j].content) :
                      History(k)[j].content[b].type \in BlockTypes)
    /\ [][pc # "idle" => BeginsWith(messages', messages) /\ system_content' = system_content]_vars

\* C25 witness: a run given a prior conversation made three model calls,
\* the third with the five messages of two tool rounds.
C25_Witness ==
    /\ Len(api_calls) = 3
    /\ system_content = SystemContent("User: Hello\nAssistant: Hi there!")
    /\ Len(History(3)) = 5

\* ------------------------------------------------------------------ C26

\* What a caller collecting the citations now is given.
Collectable == get_last_sources(tm_values, last_sources)

\* This step is a query that produces no citations: an execute_tool call
\* that runs no search, or whose search gives no rows, an error or a failure.
QueryWithoutCitations == call'.op = "execute_tool" /\ ~call'.stores

FirstNonEmpty(tool_seq) ==
    LET holding == SelectSeq(tool_seq, LAMBDA t :
                       t \in DOMAIN last_sources /\ last_sources[t] # <<>>)
    IN  IF holding = <<>> THEN <<>> ELSE last_sources[holding[1]]

\* The registered tools in the order in which their names were first
\* registered.
ByFirstRegistration == [i \in 1..Len(first_order) |-> Latest(first_order[i])]

\* C27 as claimed: get_last_sources returns the last-sources list of the
\* first tool, in the order in which the registered tools were registered,
\* whose list is non-empty, and an empty list when no registered tool has a
\* non-empty list; tools without a last-sources slot are skipped.
C27_FirstRegisteredHolderWins ==
    call.op = "get_last_sources" => call.res.value = FirstNonEmpty(reg_order)

\* C27 as amended: get_last_sources returns the last-sources list of the
\* first tool, in the order in which the names of the registered tools were
\* first registered (a tool registered again under a name takes the place of
\* the tool it replaces), whose list is non-empty, and an empty list when no
\* registered tool has a non-empty list; tools without a last-sources slot
\* are skipped.
C27_FirstHolderInDictOrderWins ==
    call.op = "get_last_sources" => call.res.value = FirstNonEmpty(ByFirstRegistration)

\* C27 witness: the outline tool, which has no slot, was registered first,
\* two tools holding different citations after it, and get_last_sources
\* returned the list of the one registered before the other.
C27_Witness ==
    /\ call.op = "get_last_sources"
    /\ Len(tm_values) = 3
    /\ reg_order = tm_values
    /\ tm_values[1] = CourseOutlineTool(1)
    /\ last_sources[tm_values[2]] # <<>>
    /\ last_sources[tm_values[3]] # <<>>
    /\ last_sources[tm_values[2]] # last_sources[tm_values[3]]
    /\ call.res.value = last_sources[tm_values[2]]

\* ------------------------------------------------------------------ C28

\* This step is a register_tool call for a tool whose definition has no
\* name or an empty one.
RegistersNameless == call'.op = "register_tool" /\ NameOf(call'.tool) \in {None, ""}

\* C28: register_tool rejects a tool whose definition has a missing or empty
\* name by raising an error, and in that case the registry (its tools, their
\* order and their definitions) is left unchanged.
C28_NamelessToolIsRejected ==
    /\ [][RegistersNameless =>
             /\ call'.res.kind = "raise"
             /\ call'.res.exc.type = "ValueError"
             /\ tm_tools' = tm_tools
             /\ tm_values' = tm_values
             /\ get_tool_definitions(tm_values') = get_tool_definitions(tm_values)
             /\ last_sources' = last_sources]_vars
    /\ [](/\ \A i \in 1..Len(tm_tools) : tm_tools[i] \notin {None, ""}
          /\ \A i \in 1..Len(tm_values) : NameOf(tm_values[i]) = tm_tools[i])

\* C28 witness: a tool whose definition has the name "" was rejected by a
\* registry that holds both tools of the application.
C28_Witness ==
    /\ call.op = "register_tool"
    /\ NameOf(call.tool) = ""
    /\ call.res.kind = "raise"
    /\ Len(tm_tools) = 2

\* ------------------------------------------------------------------ C29

\* The last call was a content search that got no rows and no error from
\* the store.
SearchedWithoutRows ==
    /\ Searched
    /\ \E r \in search(catalog, call.kwargs) :
          /\ is_empty(r)
          /\ SearchExecute(catalog, call.kwargs, r).res = call.res

\* C29: when a content search returns no rows and no error, the tool returns
\* a "No relevant content found" message that names every filter that was
\* supplied: the course name whenever course_name was given and the lesson
\* number whenever lesson_number was given, for every lesson number value.
C29_NoContentTextNamesEveryFilter ==
    SearchedWithoutRows =>
        /\ call.res.value[1] = "No relevant content found"
        /\ Given(call.kwargs, "course_name") =>
              Names(call.res.value, call.kwargs.course_name)
        /\ Given(call.kwargs, "lesson_number") =>
              Names(call.res.value, ToString(call.kwargs.lesson_number))

\* ------------------------------------------------------------------ C30

\* The error texts the store's search may carry for the arguments of the
\* last call.
StoreErrors == { r.error : r \in { x \in search(catalog, call.kwargs) : x.error # <<>> } }

\* C30: when the store's search result carries an error (a failed
\* course-name resolution included), the content-search tool returns that
\* error text verbatim as its result, before testing emptiness, and does not
\* raise; no citations are produced, and the text is an ordinary result of
\* execute_tool.
C30_StoreErrorIsReturnedVerbatim ==
    (Executed /\ call.ran \in SearchTools) =>
        /\ Binds(call.kwargs, call.ran) => call.res.kind = "return"
        /\ \A r \in search(catalog, call.kwargs) :
              r.error # <<>> =>
                  /\ SearchExecute(catalog, call.kwargs, r).res = Return(r.error)
                  /\ ~SearchExecute(catalog, call.kwargs, r).stores
        /\ (call.res.kind = "return" /\ call.res.value \in StoreErrors) => ~call.stores
        /\ (Binds(call.kwargs, call.ran) /\ Given(call.kwargs, "course_name")
              /\ resolve_course_name(catalog, call.kwargs.course_name) = None) =>
                 call.res = Return(<<"No course found matching '", call.kwargs.course_name, "'">>)

\* C30 witness: a search over an empty catalog named a course, the store
\* reported the failed resolution as an error, and the tool returned it.
C30_Witness ==
    /\ Searched
    /\ catalog = <<>>
    /\ call.res.value = <<"No course found matching '", "MCP", "'">>
    /\ call.res.value \in StoreErrors


\* ------------------------------------------------------------------ C31

\* The rows the store gave to the last call, a content search that produced
\* citations: the result of the store whose formatted text was returned.
RowsOfLastSearch ==
    CHOOSE r \in search(catalog, call.kwargs) :
        Len(r.documents) > 0 /\ Formatted(r) = call.res.value

\* The positions of a formatted text where a block's header opens.
HeaderStarts(text) == { p \in 1..Len(text) : text[p] = "[" }

\* The position where the i-th block of a formatted text opens.
HeaderStart(text, i) ==
    CHOOSE p \in HeaderStarts(text) :
        Cardinality({ q \in HeaderStarts(text) : q < p }) = i - 1

\* The i-th block of a formatted text is headed by the citation text and
\* holds the document.
BlockCarries(text, i, cite_text, doc) ==
    LET p == HeaderStart(text, i)
        n == Len(cite_text)
    IN  /\ p + n + 3 <= Len(text)
        /\ SubSeq(text, p + 1, p + n) = cite_text
        /\ text[p + n + 1] = "]"
        /\ text[p + n + 2] = "\n"
        /\ text[p + n + 3] = doc

\* C31: for a non-empty search result the content-search tool produces
\* exactly one citation per result row, in row order, co-indexed with the
\* formatted blocks; the citation text is the course title plus
\* " - Lesson <n>" when the row has a lesson number, and the link is the
\* lesson link when a lesson number is present, else the course link.
C31_OneCitationPerRowInOrder ==
    (Searched /\ call.stores) =>
        LET rows == RowsOfLastSearch
            cites == last_sources[call.ran]
        IN  /\ Len(cites) = Len(rows.documents)
            /\ Cardinality(HeaderStarts(call.res.value)) = Len(rows.documents)
            /\ \A i \in 1..Len(rows.documents) :
                  LET meta == rows.metadata[i] IN
                  /\ cites[i].text =
                        IF "lesson_number" \in DOMAIN meta
                        THEN <<meta.course_title, " - Lesson ", ToString(meta.lesson_number)>>
                        ELSE <<meta.course_title>>
                  /\ cites[i].link =
                        IF "lesson_number" \in DOMAIN meta
                        THEN get_lesson_link(catalog, meta.course_title, meta.lesson_number)
                        ELSE get_course_link(catalog, meta.course_title)
                  /\ BlockCarries(call.res.value, i, cites[i].text, rows.documents[i])

\* C31 witness: a search gave the four chunks; the citations are a lesson
\* with its own link, a lesson without a link, and two courses, one with a
\* link and one without.
C31_Witness ==
    /\ Searched
    /\ call.stores
    /\ Len(last_sources[call.ran]) = 4
    /\ last_sources[call.ran][1] =
           [text |-> <<Titles[1], " - Lesson ", "0">>, link |-> "https://example.com/lesson0"]
    /\ last_sources[call.ran][2].link = None
    /\ last_sources[call.ran][3] = [text |-> <<Titles[2]>>, link |-> None]
    /\ last_sources[call.ran][4] = [text |-> <<Titles[1]>>, link |-> "https://example.com/course"]


\* ------------------------------------------------------------------ C32

\* The last call reached the execute() of the outline tool with arguments
\* that fit its signature.
OutlineRan == Executed /\ call.ran = CourseOutlineTool(1) /\ Binds(call.kwargs, call.ran)

\* The ways a text of the outline tool may open.
OutlineOpenings ==
    {"No course found matching '", "Error retrieving course outline: ", "Course: "}

\* The text lists the lessons of the entry, one after the other in stored
\* order, after the header of ten pieces.
ListsLessons(text, lessons) ==
    /\ Len(text) = 10 + 6 * Len(lessons)
    /\ \A i \in 1..Len(lessons) :
          /\ text[10 + 6 * (i - 1) + 1] = ToString(lessons[i].lesson_number)
          /\ text[10 + 6 * (i - 1) + 3] = lessons[i].lesson_title
          /\ text[10 + 6 * (i - 1) + 5] = lessons[i].lesson_link

\* C32: the course-outline tool returns text for every outcome: a not-found
\* message when the name does not resolve or the catalog has no entry for
\* the resolved title, an "Error retrieving course outline" text when the
\* catalog lookup or the lesson-list deserialization fails, and otherwise
\* the title, instructor, link and one line per lesson in stored order; it
\* never raises.
C32_OutlineAlwaysReturnsText ==
    OutlineRan =>
        LET title == resolve_course_name(catalog, call.kwargs.course_name)
            texts == [lookup \in Lookups |-> OutlineExecute(catalog, call.kwargs, lookup)]
        IN  /\ call.res.kind = "return"
            /\ call.res.value[1] \in OutlineOpenings
            /\ call.res \in { texts[lookup] : lookup \in Lookups }
            /\ \A lookup \in Lookups : texts[lookup].kind = "return"
            /\ title = None =>
                  \A lookup \in Lookups :
                      texts[lookup].value[1] = "No course found matching '"
            /\ title # None =>
                  /\ texts["no metadatas"].value[1] = "No course found matching '"
                  /\ texts["get raises"].value[1] = "Error retrieving course outline: "
                  /\ texts["lessons_json malformed"].value[1] = "Error retrieving course outline: "
                  /\ texts["found"].value[1] = "Course: "
            /\ call.res.value[1] = "Course: " =>
                  /\ SubSeq(call.res.value, 1, 10) =
                        <<"Course: ", title, "\n", "Instructor: ", CourseEntry(title).instructor,
                          "\n", "Course Link: ", CourseEntry(title).course_link, "\n\n",
                          "Lessons:\n">>
                  /\ ListsLessons(call.res.value, CourseEntry(title).lessons)

\* C32 witness: the outline tool rendered a course of two lessons, the
\* second one listed second.
C32_Witness ==
    /\ OutlineRan
    /\ call.res.kind = "return"
    /\ call.res.value[1] = "Course: "
    /\ Len(call.res.value) = 22
    /\ call.res.value[19] = "Servers"


\* ------------------------------------------------------------------ C33

\* The roles of a history of n messages that starts with the user and
\* strictly alternates.
Alternating(n) == [j \in 1..n |-> IF j % 2 = 1 THEN "user" ELSE "assistant"]

\* C33: at every model call of a run the submitted history has odd length
\* 2k-1 for the k-th call, strictly alternates user and assistant roles, and
\* ends with a user message; this holds on the tool-failure path and when a
\* tool_use response contains no tool-invocation block.
C33_HistoryAlternatesAtEveryCall ==
    \A k \in 1..Len(api_calls) :
        /\ Len(History(k)) = 2 * k - 1
        /\ Roles(History(k)) = Alternating(2 * k - 1)
        /\ History(k)[Len(History(k))].role = "user"


\* ------------------------------------------------------------------ C34

\* C34: in every reachable state of a run the round counter is between 0
\* and 2, it changes only by +1 and only after a tool_use response with a
\* tool manager present, and the number of model calls issued so far is at
\* most round counter + 1; hence no run issues more than 3 model calls.
C34_RoundCounterBoundsTheModelCalls ==
    /\ [](/\ round_count \in 0..2
          /\ Len(api_calls) <= round_count + 1
          /\ Len(api_calls) <= 3)
    /\ [][round_count' # round_count =>
            /\ round_count' = round_count + 1
            /\ response.stop_reason = "tool_use"
            /\ tool_manager # None
            /\ Len(api_calls) = round_count + 1
            /\ Answered(Len(api_calls))
            /\ Resp(Len(api_calls)) = response]_vars

\* C34 witness: a run counted two rounds and made its third model call from
\* the forced synthesis.
C34_Witness ==
    /\ round_count = 2
    /\ Len(api_calls) = 3
    /\ api_calls[3].site = "synth"
    /\ pc = "returned"


\* ------------------------------------------------------------------ C35

\* Execution j is of an invocation of the same round as execution i, listed
\* after it in the model's message.
ListedAfter(j, i) ==
    /\ tool_calls[j].id[2] = tool_calls[i].id[2]
    /\ tool_calls[j].id[3] > tool_calls[i].id[3]

\* C35: once a tool invocation in a round raises, the remaining tool
\* invocations of that round (those listed after it) are never executed, in
\* that round or later.
C35_NothingRunsAfterAFailureInItsRound ==
    \A i \in 1..Len(tool_calls) :
        tool_calls[i].res.kind = "raise" =>
            \A j \in 1..Len(tool_calls) :
                /\ ~ListedAfter(j, i)
                /\ j > i => tool_calls[j].round > tool_calls[i].round

\* C35 witness: the first of two invocations of round 1 raised, a tool ran
\* in round 2, and the run is over without the second invocation having run.
C35_Witness ==
    /\ Done
    /\ Len(tool_calls) >= 2
    /\ tool_calls[1].res.kind = "raise"
    /\ Len(InvocationsOf(1)) = 2
    /\ tool_calls[1].id = InvocationsOf(1)[1].id
    /\ tool_calls[2].round = 2


\* ------------------------------------------------------------------ C36

\* The step is a content search that returned at least one row: execute_tool
\* reached a CourseSearchTool, which returned formatted blocks.
SearchGaveRows ==
    /\ call'.op = "execute_tool"
    /\ call'.ran \in SearchTools
    /\ call'.res.kind = "return"
    /\ \E r \in search(catalog, call'.kwargs) :
          Len(r.documents) > 0 /\ call'.res.value = Formatted(r)

\* The step is a call that the claim says leaves the citations alone.
LeavesCitationsAlone ==
    \/ call'.op \in {"register_tool", "get_last_sources", "get_tool_definitions"}
    \/ /\ call'.op = "execute_tool"
       /\ \/ call'.ran = NoTool
          \/ call'.ran = CourseOutlineTool(1)
          \/ /\ call'.ran \in SearchTools
             /\ ~SearchGaveRows

CollectedAfterTwoRounds ==
    rag_query.pc \in {"collected", "done"} /\ Len(rag_query.rounds) = 2

\* Round i was a content search that returned rows: the content-search tool
\* returned formatted blocks.
RoundGaveRows(i) ==
    /\ rag_query.rounds[i].ran \in SearchTools
    /\ rag_query.rounds[i].res.kind = "return"
    /\ rag_query.rounds[i].res.value[1] = "["

\* Round i was a content search that returned the store's error or the
\* no-content text, or an outline call.
RoundGaveNoRows(i) ==
    /\ rag_query.rounds[i].res.kind = "return"
    /\ \/ rag_query.rounds[i].ran = CourseOutlineTool(1)
       \/ /\ rag_query.rounds[i].ran \in SearchTools
          /\ rag_query.rounds[i].res.value[1] \in
                {"No relevant content found", "No course found matching '", "Search error: "}

\* The citations of the rows of round i, built from the rows the store gave.
CitationsOfRound(i) ==
    LET r == CHOOSE x \in search(catalog, rag_query.rounds[i].kwargs) :
                 Len(x.documents) > 0
    IN  [j \in 1..Len(r.metadata) |->
            IF "lesson_number" \in DOMAIN r.metadata[j]
            THEN [text |-> <<r.metadata[j].course_title, " - Lesson ",
                             ToString(r.metadata[j].lesson_number)>>,
                  link |-> get_lesson_link(catalog, r.metadata[j].course_title,
                                           r.metadata[j].lesson_number)]
            ELSE [text |-> <<r.metadata[j].course_title>>,
                  link |-> get_course_link(catalog, r.metadata[j].course_title)]]

LoopExited == round_count = MAX_ROUNDS

\* C38: the fallback return at the end of generate_response (after the
\* forced-synthesis branch) is unreachable: whenever the round loop exits
\* without returning or raising, the last model response carries the
\* tool_use signal, so the forced-synthesis branch is always taken.
C38_FallbackReturnIsUnreachable ==
    /\ [](LoopExited =>
            /\ Answered(MAX_ROUNDS)
            /\ Resp(MAX_ROUNDS).stop_reason = "tool_use"
            /\ response.stop_reason = "tool_use" \/ Len(api_calls) > MAX_ROUNDS
            /\ pc = "synth" \/ (Done /\ Len(api_calls) = MAX_ROUNDS + 1
                                     /\ api_calls[MAX_ROUNDS + 1].site = "synth")
            /\ outcome # Return(<<"Error: No response generated">>))
    /\ [][(round_count' # round_count /\ round_count' = MAX_ROUNDS) =>
            /\ AfterRound(round_count', response) # "fallback"
            /\ pc' = "synth"]_vars

\* C38 witness: the loop ended after two rounds and the run stands at the
\* forced synthesis.
C38_Witness ==
    /\ LoopExited
    /\ pc = "synth"
    /\ Len(api_calls) = MAX_ROUNDS


\* ------------------------------------------------------------------ C39

\* The catalog passed to the k-th model call: generate_response's `tools`
\* for a call of the loop (line 110), None for the forced synthesis (line
\* 151).
PassedTools(k) == IF api_calls[k].site = "loop" THEN tools ELSE PyNone

\* The catalog is a list with at least one tool.
NonEmptyCatalog(tls) == ~tls.none /\ Len(tls.items) > 0

\* C39: a tools argument that is empty or absent is never sent to the model:
\* a model call carries the tool catalog and the automatic tool-choice
\* setting if and only if a non-empty catalog was passed to that call.
C39_CatalogSentIffNonEmpty ==
    \A k \in 1..Len(api_calls) :
        LET params == api_calls[k].params IN
        /\ "tools" \in DOMAIN params <=> NonEmptyCatalog(PassedTools(k))
        /\ "tool_choice" \in DOMAIN params <=> NonEmptyCatalog(PassedTools(k))
        /\ NonEmptyCatalog(PassedTools(k)) =>
              /\ params.tools = PassedTools(k).items
              /\ params.tool_choice = "auto"
        /\ "tools" \in DOMAIN params => params.tools # <<>>

\* C39 witness: a run was given the empty list as its catalog and has made a
\* model call, which carries neither the catalog nor the tool choice.
C39_Witness ==
    /\ tools = PyList(<<>>)
    /\ Len(api_calls) >= 1
    /\ DOMAIN api_calls[1].params = {"messages", "system"}

====
